---- MODULE Spec2Model ----
(***************************************************************************)
(* zcommit: the raw-terminal selector (ui.js), the process-level cleanup   *)
(* handlers and orchestration flow (index.js) and the request/parse        *)
(* pipeline (ai.js), as a state machine.                                   *)
(*                                                                         *)
(* JavaScript strings are sequences of UTF-16 code units (naturals).       *)
(***************************************************************************)
EXTENDS Integers, Sequences, FiniteSets

\* ------------------------------------------------------------------ bounds

\* Largest options list handed to select by an arbitrary caller.
MaxN == 10

\* Longest line typed at the non-interactive prompt.
MaxAnswerLen == 3

\* Most pieces a simulated response body is put together from.
MaxPieces == 3

\* Rows of the terminal the block is drawn on (taller than any block).
ScreenRows == MaxN + 3

\* ------------------------------------------------------- JavaScript values

\* Characters the model uses, by code unit.
ChCtrlC == <<3>>
ChTab == <<9>>
ChLF == <<10>>
ChCR == <<13>>
ChEsc == <<27>>
ChSpace == <<32>>
ChDQuote == <<34>>
ChSQuote == <<39>>
ChRParen == <<41>>
ChStar == <<42>>
ChPlus == <<43>>
ChMinus == <<45>>
ChDot == <<46>>
ChColon == <<58>>
ChBacktick == <<96>>
ChA == <<97>>
ChJ == <<106>>
ChK == <<107>>
ChX == <<120>>
ArrowUp == <<27, 91, 65>>
ArrowDown == <<27, 91, 66>>
ArrowRight == <<27, 91, 67>>

\* "0".."9" as one-unit strings.
Digit(d) == <<48 + d>>

IsDigitUnit(u) == u >= 48 /\ u <= 57

\* ECMAScript WhiteSpace and LineTerminator units that occur in the model.
IsSpaceUnit(u) == u \in {9, 10, 11, 12, 13, 32}

\* a % b of JavaScript for integers: the sign follows the dividend.
JsRem(a, b) == IF a >= 0 THEN a % b ELSE -((-a) % b)

\* String(k) for an integer k >= 0.
RECURSIVE NumToString(_)
NumToString(k) ==
  IF k < 10 THEN Digit(k) ELSE NumToString(k \div 10) \o Digit(k % 10)

\* Relational comparison of two strings: -1, 0 or 1, by code unit, a proper
\* prefix being smaller.
RECURSIVE StrCmp(_, _)
StrCmp(a, b) ==
  IF a = <<>> THEN (IF b = <<>> THEN 0 ELSE -1)
  ELSE IF b = <<>> THEN 1
  ELSE IF Head(a) < Head(b) THEN -1
  ELSE IF Head(a) > Head(b) THEN 1
  ELSE StrCmp(Tail(a), Tail(b))

StrGE(a, b) == StrCmp(a, b) >= 0
StrLE(a, b) == StrCmp(a, b) <= 0

\* s with its leading white space removed.
RECURSIVE TrimStart(_)
TrimStart(s) ==
  IF s # <<>> /\ IsSpaceUnit(Head(s)) THEN TrimStart(Tail(s)) ELSE s

\* s with its trailing white space removed.
RECURSIVE TrimEnd(_)
TrimEnd(s) ==
  IF s # <<>> /\ IsSpaceUnit(s[Len(s)]) THEN TrimEnd(SubSeq(s, 1, Len(s) - 1)) ELSE s

\* String.prototype.trim
Trim(s) == TrimEnd(TrimStart(s))

\* The value of the longest run of decimal digits s starts with, given the
\* value acc of the digits read so far.
RECURSIVE DigitsValue(_, _)
DigitsValue(s, acc) ==
  IF s # <<>> /\ IsDigitUnit(Head(s))
  THEN DigitsValue(Tail(s), 10 * acc + (Head(s) - 48))
  ELSE acc

\* parseInt(s, 10): white space is skipped, then an optional sign, then the
\* longest run of digits is read and whatever follows is ignored; NaN when no
\* digit is there.
parseInt(s) ==
  LET t == TrimStart(s)
      signed == t # <<>> /\ Head(t) \in {43, 45}
      body == IF signed THEN Tail(t) ELSE t
      neg == signed /\ Head(t) = 45
      mag == DigitsValue(body, 0)
  IN  IF body = <<>> \/ ~IsDigitUnit(Head(body))
      THEN [nan |-> TRUE, val |-> 0]
      ELSE [nan |-> FALSE, val |-> IF neg THEN -mag ELSE mag]

\* ---------------------------------------------------------------- terminal

\* What one terminal row shows: <<"old">> (text that was there before the
\* selector drew), <<"blank">>, <<"title">>, <<"opt", i, style>> or
\* <<"stale">> (new text written over different old text without erasing).
\* The terminal is taller than the block and no line wraps.
FreshTerm(r) ==
  [rows |-> [i \in 1..ScreenRows |-> <<"old">>], cur |-> r, scrolled |-> FALSE]

\* "\n": one row down, scrolling the screen when already on the last row.
NewLine(t) ==
  IF t.cur = ScreenRows
  THEN [rows |-> [i \in 1..ScreenRows |->
                    IF i = ScreenRows THEN <<"blank">> ELSE t.rows[i + 1]],
        cur |-> ScreenRows, scrolled |-> TRUE]
  ELSE [t EXCEPT !.cur = @ + 1]

\* ESC [ k A: k rows up, stopping at the first row.
CursorUp(t, k) == [t EXCEPT !.cur = IF @ - k < 1 THEN 1 ELSE @ - k]

\* ESC [ 2 K: erase the whole row.
EraseLine(t) == [t EXCEPT !.rows[t.cur] = <<"blank">>]

\* Plain text written on the current row.
PutText(t, text) ==
  [t EXCEPT !.rows[t.cur] =
     IF @ = <<"blank">> \/ @ = text THEN text ELSE <<"stale">>]

\* out.write(`\x1b[2K${text}\n`)
WriteLine(t, text) == NewLine(PutText(EraseLine(t), text))

\* A choice line of render: the active one is marked.
ChoiceText(i, sel) == <<"opt", i, IF i = sel THEN "active" ELSE "dim">>

\* A choice line of the final render: the chosen one carries the checkmark.
FinalText(i, sel) == <<"opt", i, IF i = sel THEN "check" ELSE "plain">>

\* The for loop over the choices, from index i on.
RECURSIVE DrawChoices(_, _, _, _, _)
DrawChoices(t, i, len, sel, final) ==
  IF i >= len THEN t
  ELSE DrawChoices(
         WriteLine(t, IF final THEN FinalText(i, sel) ELSE ChoiceText(i, sel)),
         i + 1, len, sel, final)

\* A mutant of render: one row too few on the way up.
renderShort(t, len, sel, first) ==
  LET t0 == [t EXCEPT !.scrolled = FALSE]
      t1 == IF ~first THEN CursorUp(t0, len) ELSE t0
  IN  DrawChoices(WriteLine(t1, <<"title">>), 0, len, sel, FALSE)

\* render(): back to the top of the block unless this is the first draw, then
\* the title and the choices, each row erased before it is written.
\* (scrolled says whether this pass scrolled the screen.)
render(t, len, sel, first) ==
  LET t0 == [t EXCEPT !.scrolled = FALSE]
      t1 == IF ~first THEN CursorUp(t0, 1 + len) ELSE t0
  IN  DrawChoices(WriteLine(t1, <<"title">>), 0, len, sel, FALSE)

\* The final render of the Enter branch.
finalRender(t, len, sel) ==
  LET t0 == [t EXCEPT !.scrolled = FALSE]
  IN  DrawChoices(WriteLine(CursorUp(t0, 1 + len), <<"title">>), 0, len, sel, TRUE)

\* --------------------------------------------------------------- config.js

\* A value that is not there (undefined: an unset environment variable, a
\* property the object lacks), and null.
NoValue == "(undefined)"
Null == "(null)"

\* if (v), v || null: undefined, null and "" are falsy
Truthy(v) == v \notin {NoValue, Null, ""}

\* The config file: missing, unreadable as JSON ("corrupt"), the JSON text
\* null, a JSON number, string or boolean ("scalar"), or a JSON object, of
\* which the model keeps the apiKey and whether it has any other field.
ConfigFile(kind, key, other) == [kind |-> kind, apiKey |-> key, other |-> other]
FileMissing == ConfigFile("missing", NoValue, FALSE)
FileCorrupt == ConfigFile("corrupt", NoValue, FALSE)
FileNull == ConfigFile("null", NoValue, FALSE)
FileScalar == ConfigFile("scalar", NoValue, FALSE)
FileObject(key, other) == ConfigFile("object", key, other)

\* What a call into config.js gives its caller: it threw, or it returned val.
Returned(val) == [threw |-> FALSE, val |-> val]
Threw == [threw |-> TRUE, val |-> NoValue]
NoResult == Returned(NoValue)

\* loadConfig(): the parsed file, {} when it is missing or does not parse
loadConfig(file) ==
  IF file.kind \in {"missing", "corrupt"} THEN FileObject(NoValue, FALSE)
  ELSE file

\* getApiKey(): the environment first, then config.apiKey || null, which
\* throws a TypeError when the file holds the JSON text null.
getApiKey(env, file) ==
  IF Truthy(env) THEN Returned(env)
  ELSE LET config == loadConfig(file)
       IN  IF config.kind = "null" THEN Threw
           ELSE IF Truthy(config.apiKey) THEN Returned(config.apiKey)
           ELSE Returned(Null)

\* getApiKey reads the file only when the environment has no key.
ReadsConfig(env) == ~Truthy(env)

\* saveConfig(config): the file becomes the object, unless writing fails.
saveConfig(file, config, ioFails) == IF ioFails THEN file ELSE config

\* setApiKey(key): the file after the call and whether the call threw; a
\* property cannot be set on null or on a primitive value.
setApiKey(file, key, ioFails) ==
  LET config == loadConfig(file)
  IN  IF config.kind # "object" THEN [threw |-> TRUE, val |-> NoValue, file |-> file]
      ELSE [threw |-> ioFails, val |-> NoValue,
            file |-> saveConfig(file, [config EXCEPT !.apiKey = key], ioFails)]

\* deleteApiKey(): false without a stored key, else the key is removed
deleteApiKey(file, ioFails) ==
  LET config == loadConfig(file)
  IN  IF config.kind = "null" THEN [threw |-> TRUE, val |-> NoValue, file |-> file]
      ELSE IF ~Truthy(config.apiKey) THEN [threw |-> FALSE, val |-> "false", file |-> file]
      ELSE [threw |-> ioFails, val |-> IF ioFails THEN NoValue ELSE "true",
            file |-> saveConfig(file, [config EXCEPT !.apiKey = NoValue], ioFails)]

\* ------------------------------------------------------------------ git.js

\* const MAX_TOTAL = 12000; const MAX_PER_FILE = 3000;
MAX_TOTAL == 12000
MAX_PER_FILE == 3000

\* total += 30 for a binary file; fileDiff.length < 200
BinaryCount == 30
BinaryLimit == 200

\* const MAX_LEN = 12000 of getStagedDiffForNewRepo
MAX_LEN == 12000

\* A staged file as getStagedDiff sees it: the length of its name, the
\* priority its extension gives it, and what git diff --cached -- file gives:
\* it fails (unreadable), or it prints diffLen characters, which include the
\* words "Binary files" or not.
StagedFile(nameLen, priority, diffLen, binaryWords, unreadable) ==
  [nameLen |-> nameLen, priority |-> priority, diffLen |-> diffLen,
   binaryWords |-> binaryWords, unreadable |-> unreadable]

\* The lengths of the texts the bundle is made of.
DigitCount(n) == Len(NumToString(n))
BinaryPlaceholderLen(f) == 15 + f.nameLen
UnreadablePlaceholderLen(f) == 23 + f.nameLen
TruncationMarkerLen(f) == 17 + f.nameLen
OmissionMarkerLen(skipped) == 40 + DigitCount(skipped)
NewRepoMarkerLen == 16
NewRepoHeadingLen == 37

\* The result of the calls before any was made.
NoBundle ==
  [from |-> "none", ok |-> FALSE, parts |-> <<>>, skipped |-> 0, marker |-> 0,
   total |-> 0, len |-> 0]

\* [...files].sort((a, b) => priority(a) - priority(b)): a stable sort of the
\* positions 1..Len(files) by priority.
RECURSIVE PositionsOf(_, _, _)
PositionsOf(files, p, i) ==
  IF i > Len(files) THEN <<>>
  ELSE (IF files[i].priority = p THEN <<i>> ELSE <<>>)
         \o PositionsOf(files, p, i + 1)
Sorted(files) ==
  PositionsOf(files, 0, 1) \o PositionsOf(files, 1, 1) \o PositionsOf(files, 2, 1)

\* A mutant of Capped: the per-file cap is missing.
CappedNever(diffLen) == diffLen

\* fileDiff.slice(0, MAX_PER_FILE): the characters of the diff that are kept
Capped(diffLen) == IF diffLen > MAX_PER_FILE THEN MAX_PER_FILE ELSE diffLen

\* A mutant of UnreadablePart: an unreadable file leaves no part.
UnreadablePartNone(id, f) == <<>>

\* parts.push(`[could not read diff: ${file}]`)
UnreadablePart(id, f) ==
  <<[id |-> id, kind |-> "unreadable", kept |-> 0, names |-> id,
     len |-> UnreadablePlaceholderLen(f), counted |-> 0]>>

\* The body of the loop for one file: the part pushed, with the number of
\* characters of the file's diff it keeps, the file its text names, its
\* length and what it adds to total.
PartOf(id, f) ==
  IF f.unreadable THEN UnreadablePart(id, f)
  ELSE IF f.binaryWords /\ f.diffLen < BinaryLimit
  THEN <<[id |-> id, kind |-> "binary", kept |-> 0, names |-> id,
          len |-> BinaryPlaceholderLen(f), counted |-> BinaryCount]>>
  ELSE IF f.diffLen > MAX_PER_FILE
  THEN <<[id |-> id, kind |-> "truncated", kept |-> Capped(f.diffLen),
          names |-> id,
          len |-> Capped(f.diffLen) + TruncationMarkerLen(f),
          counted |-> Capped(f.diffLen) + TruncationMarkerLen(f)]>>
  ELSE <<[id |-> id, kind |-> "diff", kept |-> f.diffLen, names |-> 0,
          len |-> f.diffLen, counted |-> f.diffLen]>>

RECURSIVE SumLen(_)
SumLen(parts) == IF parts = <<>> THEN 0 ELSE parts[1].len + SumLen(Tail(parts))
RECURSIVE SumCounted(_)
SumCounted(parts) ==
  IF parts = <<>> THEN 0 ELSE parts[1].counted + SumCounted(Tail(parts))

\* if (total >= MAX_TOTAL)
BudgetSpent(total) == total >= MAX_TOTAL

\* for (const file of sorted) { ... }: the parts pushed and the value of
\* skipped when the loop ends.
RECURSIVE Loop(_, _, _, _)
Loop(files, sorted, i, parts) ==
  IF i > Len(sorted) THEN [parts |-> parts, skipped |-> 0]
  ELSE IF BudgetSpent(SumCounted(parts))
  THEN [parts |-> parts, skipped |-> Len(sorted) - Len(parts)]
  ELSE Loop(files, sorted, i + 1, parts \o PartOf(sorted[i], files[sorted[i]]))

\* if (skipped > 0) parts.push(`\n... (${skipped} more file(s) omitted ...`):
\* the number the marker states, 0 for no marker
OmissionMarker(skipped) == IF skipped > 0 THEN skipped ELSE 0

\* parts.join("\n"), the omission marker being the last part if there is one
JoinedLen(parts, marker) ==
  LET count == Len(parts) + (IF marker > 0 THEN 1 ELSE 0)
  IN  SumLen(parts)
        + (IF marker > 0 THEN OmissionMarkerLen(marker) ELSE 0)
        + (IF count > 0 THEN count - 1 ELSE 0)

\* getStagedDiff(): { stat: "", diff: "" } when git fails or names no file
getStagedDiff(files, gitFails) ==
  IF gitFails \/ files = <<>>
  THEN [NoBundle EXCEPT !.from = "getStagedDiff"]
  ELSE LET r == Loop(files, Sorted(files), 1, <<>>)
       IN  [from |-> "getStagedDiff", ok |-> TRUE, parts |-> r.parts,
            skipped |-> r.skipped, marker |-> OmissionMarker(r.skipped),
            total |-> SumCounted(r.parts),
            len |-> JoinedLen(r.parts, OmissionMarker(r.skipped))]

\* getStagedDiffForNewRepo(): the diff against the empty tree, cut at MAX_LEN
\* and marked; without one, the heading and the names; "" when git fails.
getStagedDiffForNewRepo(detailedLen, namesLen, gitFails) ==
  [NoBundle EXCEPT
     !.from = "getStagedDiffForNewRepo",
     !.ok = ~gitFails,
     !.len = IF gitFails THEN 0
             ELSE IF detailedLen > MAX_LEN THEN MAX_LEN + NewRepoMarkerLen
             ELSE IF detailedLen > 0 THEN detailedLen
             ELSE IF namesLen > 0 THEN NewRepoHeadingLen + namesLen
             ELSE 0]

\* ------------------------------------------------------------------- state

VARIABLES
  stdinTTY,      \* process.stdin.isTTY
  stdoutTTY,     \* process.stdout.isTTY (isTTY of ui.js)
  isRaw,         \* process.stdin.isRaw
  cursorHidden,  \* the terminal's cursor is hidden (ESC[?25l was the last word)
  listeners,     \* "data" listeners select has registered on stdin
  pc,            \* where the caller of select / the main flow stands
  exitCode,      \* the status process.exit was called with; -1 while running
  exitPath,      \* which exit path was taken; "none" while running
  choicesLen,    \* choices.length of the select call in progress
  selected,      \* let selected
  firstDraw,     \* let firstDraw
  selState,      \* "idle", "awaiting" (promise pending), "fallback",
                 \* "resolved", "cancelled" (Ctrl+C)
  selResult,     \* the index select resolved with; -1 before
  term,          \* the terminal rows the selector draws on
  answer,        \* the line read by selectFallback
  hKey,          \* history: the chunk handed to onKeypress in this step
  hLastSet,      \* history: the index the last move/jump assigned
  hFirstTop,     \* history: the row of the title after the first draw
  hRedrawn,      \* history: render ran again after the first draw
  argFlags,      \* const flags: the arguments that start with "-"
  argCmd,        \* positional[0], "" when there is none
  handlers,      \* the SIGINT/SIGTERM/uncaughtException/unhandledRejection
                 \* handlers are registered
  interval,      \* the spinner's setInterval timer is running
  frame,         \* i % SPINNER_FRAMES.length of the spinner
  attempt,       \* let attempt of generateCommitMessages
  genState,      \* "idle", "calling", "sleeping", "returned", "thrown"
  delays,        \* the sleeps generateCommitMessages has taken, in order
  lastError,     \* let lastError: the status of the last failed attempt
  content,       \* const content: the text handed to parseMessages
  messages,      \* what generateCommitMessages returned
  hOutcomes,     \* history: the status each settled network attempt ended with
  hResponses,    \* history: the attempts of this call whose network call returned a response
  committed,     \* the messages commit() was called with, in order
  diffData,      \* let diffData of main: "unread", or its diff is "empty" or "nonempty"
  envKey,        \* process.env.CEREBRAS_API_KEY
  cfgFile,       \* the content of ~/.zcommit/config.json
  keyResult,     \* what the last call into config.js gave its caller
  hSteps,        \* history: the steps the run has taken, in order
  staged,        \* the staged files, in the order of git diff --cached --name-only
  bundle,        \* what getStagedDiff / getStagedDiffForNewRepo returned
  reasoning,     \* the reasoning text the API's responses carry beside the content
  gitOut,        \* what the git subprocess of the last git.js call wrote
  gitResult      \* what that call returned or threw

procVars == <<stdinTTY, stdoutTTY, isRaw, cursorHidden, listeners, exitCode, exitPath>>
selVars == <<choicesLen, selected, firstDraw, selState, selResult, term, answer>>
histVars == <<hKey, hLastSet, hFirstTop, hRedrawn>>
flowVars == <<argFlags, argCmd, handlers, interval, frame, committed, diffData,
              envKey, cfgFile, keyResult, hSteps, staged, bundle, reasoning,
              gitOut, gitResult>>
genVars == <<attempt, genState, delays, lastError, content, messages, hOutcomes,
            hResponses>>
vars == <<pc, procVars, selVars, histVars, flowVars, genVars>>

NoKey == <<>>

\* lastError before any attempt has failed.
NoError == [status |-> -1, attempt |-> -1]

\* ---------------------------------------------------------- terminal safety

\* out.write("\x1b[?25l"): only a terminal acts on it.
hideCursor(h) == IF stdoutTTY THEN TRUE ELSE h

\* out.write("\x1b[?25h")
showCursor(h) == IF stdoutTTY THEN FALSE ELSE h

\* A mutant of restoreCursor: the cursor is left as it is.
restoreCursorNoop(h) == h

\* restoreCursor()
restoreCursor(h) == IF stdoutTTY THEN FALSE ELSE h

\* A mutant of restoreStdin: raw mode is left as it is.
restoreStdinNoop(raw) == raw

\* restoreStdin(): the raw flag after it.
restoreStdin(raw) == IF stdinTTY /\ raw THEN FALSE ELSE raw

\* process.exit(code)
Exit(code, path) ==
  /\ pc' = "exited"
  /\ exitCode' = code
  /\ exitPath' = path

\* ---------------------------------------------------------------- selector

\* A mutant of MoveUp: the "+ choices.length" is missing.
MoveUpNoWrap(sel, len) == JsRem(sel - 1, len)

\* Up arrow or k
MoveUp(sel, len) == JsRem(sel - 1 + len, len)

\* A mutant of MoveDown: no wrap.
MoveDownNoWrap(sel, len) == sel + 1

\* Down arrow or j
MoveDown(sel, len) == JsRem(sel + 1, len)

\* key >= "1" && key <= String(choices.length): a comparison of strings.
IsNumberKey(key, len) == StrGE(key, Digit(1)) /\ StrLE(key, NumToString(len))

\* parseInt(key, 10) - 1 (the guard leaves no NaN: key starts with "1".."9")
JumpIndex(key) == parseInt(key).val - 1

\* The chunks stdin hands to the "data" listener: single keys, escape
\* sequences, and chunks of several keys read at once.
Keys ==
  {ChCtrlC, ChCR, ChLF, ChEsc, ChX, ChJ, ChK, ArrowUp, ArrowDown, ArrowRight}
  \cup {Digit(d) : d \in 0..9}
  \cup {Digit(1) \o Digit(0), Digit(2) \o ChCR, ChJ \o ChJ, ArrowDown \o ArrowDown}

\* The rows the cursor may be on when select is called.
StartRows == 1..ScreenRows

\* A mutant of SelectedIndex: always the first choice.
SelectedFirst(sel) == 0

\* resolve(selected)
SelectedIndex(sel) == sel

\* A mutant of UseFallback: the terminal check is missing.
UseFallbackNever == FALSE

\* if (!process.stdin.isTTY) return selectFallback(title, choices);
UseFallback == ~stdinTTY

\* cleanup() of select: the raw flag after setRawMode(false).
selectCleanupRaw(raw) == FALSE

\* A mutant of removeListener: the listener stays registered.
removeListenerNever(count) == count

\* cleanup() of select: process.stdin.removeListener("data", onKeypress)
removeListener(count) == count - 1

\* The body of select(title, choices) up to the pending promise, for
\* choices.length = len, the cursor being on one of the given rows.
selectAt(len, rows) ==
  /\ selState = "idle"
  /\ choicesLen' = len
  /\ hKey' = NoKey
  /\ selResult' = -1
  /\ IF UseFallback
     THEN \* selectFallback prints the numbered list and asks
          /\ selState' = "fallback"
          /\ UNCHANGED <<selected, firstDraw, term, answer, isRaw, cursorHidden,
                         listeners, hLastSet, hFirstTop, hRedrawn>>
     ELSE \E r \in rows :
          /\ selected' = 0
          /\ firstDraw' = FALSE
          /\ term' = render(NewLine(FreshTerm(r)), len, 0, TRUE)
          /\ cursorHidden' = showCursor(hideCursor(cursorHidden))
          /\ isRaw' = TRUE
          /\ listeners' = listeners + 1
          /\ selState' = "awaiting"
          /\ hLastSet' = 0
          /\ hFirstTop' = term'.cur - (1 + len)
          /\ hRedrawn' = FALSE
          /\ UNCHANGED answer
  /\ UNCHANGED <<stdinTTY, stdoutTTY, exitCode, exitPath, pc, flowVars, genVars>>

\* select(title, choices), called with the cursor on any row.
select(len) == selectAt(len, StartRows)

\* selected = v; render();
MoveTo(v) ==
  /\ selected' = v
  /\ term' = render(term, choicesLen, v, firstDraw)
  /\ firstDraw' = FALSE
  /\ cursorHidden' = showCursor(hideCursor(cursorHidden))
  /\ hLastSet' = v
  /\ hRedrawn' = TRUE
  /\ UNCHANGED <<stdinTTY, stdoutTTY, isRaw, listeners, exitCode, exitPath, pc,
                 choicesLen, selState, selResult, answer, hFirstTop,
                 flowVars, genVars>>

\* onKeypress(key), called for each chunk while the listener is registered.
onKeypress(key) ==
  /\ pc # "exited"
  /\ selState = "awaiting"
  /\ listeners > 0
  /\ hKey' = key
  /\ UNCHANGED <<flowVars, genVars>>
  /\ IF key = ChCtrlC
     THEN /\ isRaw' = selectCleanupRaw(isRaw)
          /\ listeners' = removeListener(listeners)
          /\ cursorHidden' = restoreCursor(cursorHidden)
          /\ term' = NewLine(term)
          /\ Exit(0, "select_ctrl_c")
          /\ selState' = "cancelled"
          /\ UNCHANGED <<stdinTTY, stdoutTTY, choicesLen, selected, firstDraw,
                         selResult, answer, hLastSet, hFirstTop, hRedrawn>>
     ELSE IF key = ChCR \/ key = ChLF
     THEN /\ isRaw' = selectCleanupRaw(isRaw)
          /\ listeners' = removeListener(listeners)
          /\ term' = finalRender(term, choicesLen, selected)
          /\ cursorHidden' = showCursor(hideCursor(cursorHidden))
          /\ selState' = "resolved"
          /\ selResult' = SelectedIndex(selected)
          /\ UNCHANGED <<stdinTTY, stdoutTTY, exitCode, exitPath, pc, choicesLen,
                         selected, firstDraw, answer, hLastSet, hFirstTop, hRedrawn>>
     ELSE IF key = ArrowUp \/ key = ChK
     THEN MoveTo(MoveUp(selected, choicesLen))
     ELSE IF key = ArrowDown \/ key = ChJ
     THEN MoveTo(MoveDown(selected, choicesLen))
     ELSE IF IsNumberKey(key, choicesLen)
     THEN MoveTo(JumpIndex(key))
     ELSE UNCHANGED <<pc, procVars, selVars, hLastSet, hFirstTop, hRedrawn>>

\* Lines of at most MaxAnswerLen units the user may type at the prompt.
AnswerUnits == {32, 43, 45, 46, 48, 49, 50, 57, 120}
AnswerLines == UNION {[1..m -> AnswerUnits] : m \in 0..MaxAnswerLen}

\* A mutant of FallbackIndex: the range check is missing.
FallbackIndexUnchecked(line, len) ==
  LET r == parseInt(Trim(line)) IN IF r.nan THEN 0 ELSE r.val - 1

\* selectFallback: ask() trims the line, parseInt reads it, and an index
\* outside the list (or NaN) defaults to the first choice.
FallbackIndex(line, len) ==
  LET r == parseInt(Trim(line))
      idx == r.val - 1
  IN  IF ~r.nan /\ idx >= 0 /\ idx < len THEN idx ELSE 0

\* The answer to "Enter choice (1-n):" arrives, one of the given lines.
fallbackAnswer(lines) ==
  /\ pc # "exited"
  /\ selState = "fallback"
  /\ \E line \in lines :
       /\ answer' = line
       /\ selResult' = FallbackIndex(line, choicesLen)
  /\ selState' = "resolved"
  /\ hKey' = NoKey
  /\ UNCHANGED <<pc, procVars, choicesLen, selected, firstDraw, term,
                 hLastSet, hFirstTop, hRedrawn, flowVars, genVars>>

\* The answer to "Enter choice (1-n):" arrives, any line.
FallbackAnswer == fallbackAnswer(AnswerLines)

\* --------------------------------------- select called by an arbitrary caller

\* No git.js call was made yet.
NoOutput == [stderr |-> <<>>, message |-> <<>>, stdout |-> <<>>]
NoCall == [call |-> "none"]

\* No key in the environment, no config file, nothing staged.
NoConfig == envKey = NoValue /\ cfgFile = FileMissing /\ staged = <<>>

InitBase ==
  /\ stdinTTY \in BOOLEAN
  /\ stdoutTTY \in BOOLEAN
  /\ isRaw = FALSE
  /\ cursorHidden = FALSE
  /\ listeners = 0
  /\ exitCode = -1
  /\ exitPath = "none"
  /\ choicesLen = 0
  /\ selected = 0
  /\ firstDraw = TRUE
  /\ selState = "idle"
  /\ selResult = -1
  /\ term = FreshTerm(1)
  /\ answer = <<>>
  /\ hKey = NoKey
  /\ hLastSet = 0
  /\ hFirstTop = 0
  /\ hRedrawn = FALSE
  /\ handlers = FALSE
  /\ interval = FALSE
  /\ frame = 0
  /\ attempt = 0
  /\ genState = "idle"
  /\ delays = <<>>
  /\ lastError = NoError
  /\ content = <<>>
  /\ messages = <<>>
  /\ hOutcomes = <<>>
  /\ hResponses = 0
  /\ committed = <<>>
  /\ diffData = "unread"
  /\ keyResult = NoResult
  /\ hSteps = <<>>
  /\ bundle = NoBundle
  /\ gitOut = NoOutput
  /\ gitResult = NoCall

\* The responses of the API carry no reasoning text.
InitCommon == InitBase /\ reasoning = <<>>

InitSelect ==
  /\ InitCommon
  /\ pc = "caller"
  /\ argFlags = {}
  /\ argCmd = ""
  /\ NoConfig

\* await select(title, choices) with any list of 1..MaxN choices
CallSelect == pc = "caller" /\ \E len \in 1..MaxN : select(len)

\* A chunk arrives on stdin.
Keypress == \E key \in Keys : onKeypress(key)

NextSelect == CallSelect \/ Keypress \/ FallbackAnswer

SpecSelect == InitSelect /\ [][NextSelect]_vars

\* ------------------------------------------------------- request pipeline

\* const MAX_RETRIES = 2
MAX_RETRIES == 2

\* A mutant of RETRY_DELAYS: the backoff does not grow.
RetryDelaysFlat == <<1000, 1000>>

\* const RETRY_DELAYS = [1000, 3000]
RETRY_DELAYS == <<1000, 3000>>

\* The candidates parseMessages returns, and the length a candidate must stay
\* under.
WantedMessages == 3
MaxMessageLen == 200

\* "chore: update project files"
Filler ==
  <<99, 104, 111, 114, 101, 58, 32, 117, 112, 100, 97, 116, 101, 32,
    112, 114, 111, 106, 101, 99, 116, 32, 102, 105, 108, 101, 115>>

\* raw.split("\n")
RECURSIVE SplitLines(_)
SplitLines(s) ==
  LET nl == {i \in 1..Len(s) : s[i] = 10}
  IN  IF nl = {} THEN <<s>>
      ELSE LET i == CHOOSE k \in nl : \A j \in nl : k <= j
           IN  <<SubSeq(s, 1, i - 1)>> \o SplitLines(SubSeq(s, i + 1, Len(s)))

\* .map((l) => l.trim()).filter(Boolean)
RECURSIVE TrimmedNonEmpty(_)
TrimmedNonEmpty(ls) ==
  IF ls = <<>> THEN <<>>
  ELSE LET l == Trim(Head(ls))
       IN  (IF l = <<>> THEN <<>> ELSE <<l>>) \o TrimmedNonEmpty(Tail(ls))

\* The number of decimal digits s starts with.
RECURSIVE LeadingDigits(_)
LeadingDigits(s) ==
  IF s # <<>> /\ IsDigitUnit(Head(s)) THEN 1 + LeadingDigits(Tail(s)) ELSE 0

\* [\.\):\-]
IsMarkerUnit(u) == u \in {46, 41, 58, 45}

\* A mutant of StripNumbering: the numbering is left in place.
StripNumberingNone(line) == Trim(line)

\* line.replace(/^\d+[\.\):\-]\s*/, "").trim()
StripNumbering(line) ==
  LET d == LeadingDigits(line)
  IN  IF d >= 1 /\ Len(line) > d /\ IsMarkerUnit(line[d + 1])
      THEN Trim(TrimStart(SubSeq(line, d + 2, Len(line))))
      ELSE Trim(line)

\* ["'`]
IsQuoteUnit(u) == u \in {34, 39, 96}

RECURSIVE DropLeadingQuotes(_)
DropLeadingQuotes(s) ==
  IF s # <<>> /\ IsQuoteUnit(Head(s)) THEN DropLeadingQuotes(Tail(s)) ELSE s

RECURSIVE DropTrailingQuotes(_)
DropTrailingQuotes(s) ==
  IF s # <<>> /\ IsQuoteUnit(s[Len(s)])
  THEN DropTrailingQuotes(SubSeq(s, 1, Len(s) - 1))
  ELSE s

\* cleaned.replace(/^["'`]+|["'`]+$/g, "")
StripQuotes(s) == DropTrailingQuotes(DropLeadingQuotes(s))

\* A mutant of Accepted: the "length > 0" test is missing.
AcceptedAnyShort(u) == Len(u) < MaxMessageLen

\* A mutant of Accepted: the "length < 200" test is missing.
AcceptedAnyLength(u) == Len(u) > 0

\* unquoted.length > 0 && unquoted.length < 200
Accepted(u) == Len(u) > 0 /\ Len(u) < MaxMessageLen

\* The for loop over the lines: msgs are the candidates pushed so far.
RECURSIVE Collect(_, _)
Collect(ls, msgs) ==
  IF ls = <<>> THEN msgs
  ELSE LET u == StripQuotes(StripNumbering(Head(ls)))
           next == IF Accepted(u) THEN Append(msgs, u) ELSE msgs
       IN  IF Len(next) >= WantedMessages THEN next ELSE Collect(Tail(ls), next)

\* while (messages.length < 3) messages.push("chore: update project files")
RECURSIVE Pad(_)
Pad(msgs) == IF Len(msgs) < WantedMessages THEN Pad(Append(msgs, Filler)) ELSE msgs

\* parseMessages(raw)
parseMessages(text) ==
  SubSeq(Pad(Collect(TrimmedNonEmpty(SplitLines(text)), <<>>)), 1, WantedMessages)

\* n copies of the letter "a"
Rep(n) == [i \in 1..n |-> 97]

\* p1 p2 ... as one string
RECURSIVE Concat(_)
Concat(ps) == IF ps = <<>> THEN <<>> ELSE Head(ps) \o Concat(Tail(ps))

\* "feat: a"
FeatA == <<102, 101, 97, 116, 58, 32, 97>>

\* "fix: b", "chore: c" and "3) x"
FixB == <<102, 105, 120, 58, 32, 98>>
ChoreC == <<99, 104, 111, 114, 101, 58, 32, 99>>
ThreeX == <<51, 41, 32, 120>>

\* "fix: b\nchore: c\n"
TwoLines == FixB \o ChLF \o ChoreC \o ChLF

\* The pieces response bodies are put together from: a numbering marker, a
\* bullet, a quote, a message, a line break, a blank, runs of letters just
\* under and at the length limit, and two whole lines.
Pieces ==
  {Digit(1) \o ChDot \o ChSpace, ChMinus \o ChSpace, ChDQuote, FeatA, ChLF,
   ChSpace, Rep(MaxMessageLen - 1), Rep(MaxMessageLen), TwoLines}

\* Every response body of at most MaxPieces pieces.
RawInputs == {Concat(ps) : ps \in UNION {[1..m -> Pieces] : m \in 0..MaxPieces}}

\* The texts put after the numbering of a numbered line: three ordinary
\* messages, one that itself starts like a numbering, a quoted one and one at
\* the length limit.
MessageTexts ==
  {FeatA, FixB, ChoreC, ThreeX, ChDQuote \o FeatA \o ChDQuote, Rep(MaxMessageLen)}

\* "1. m1\n2. m2\n3. m3"
Numbered(m1, m2, m3) ==
  Digit(1) \o ChDot \o ChSpace \o m1 \o ChLF
    \o Digit(2) \o ChDot \o ChSpace \o m2 \o ChLF
    \o Digit(3) \o ChDot \o ChSpace \o m3

\* Every response body of three numbered lines.
NumberedBodies ==
  {Numbered(m1, m2, m3) : m1 \in MessageTexts, m2 \in MessageTexts, m3 \in MessageTexts}

\* The enumeration markers "1. ", "1) ", "1- ", "- ", "* ", and none.
Markers ==
  {Digit(1) \o ChDot \o ChSpace, Digit(1) \o ChRParen \o ChSpace,
   Digit(1) \o ChMinus \o ChSpace, ChMinus \o ChSpace, ChStar \o ChSpace, <<>>}

\* The quote characters a line may be wrapped in, and none.
Quotes == {ChDQuote, ChSQuote, ChBacktick, <<>>}

\* Every one-line response body made of a marker, a quote, a marker again,
\* the message "feat: a" and the closing quote, each part optional.
MarkedBodies ==
  {m \o q \o n \o FeatA \o q : m \in Markers, q \in Quotes, n \in Markers}

\* The response bodies the full flow is run on:
\* "1. feat: a\n2. fix: b\n3. chore: c",
\* "1. feat: a\n\"feat: a\"\n- feat: a", "feat: a" and "".
Responses ==
  {Numbered(FeatA, FixB, ChoreC),
   Digit(1) \o ChDot \o ChSpace \o FeatA \o ChLF \o ChDQuote \o FeatA \o ChDQuote
     \o ChLF \o ChMinus \o ChSpace \o FeatA,
   FeatA,
   <<>>}

\* What one network attempt may end in: a response with content, a response
\* that has no choices list (the extraction throws), an HTTP error status, or
\* a network failure or timeout (no status: 0).
Outcomes(contents) ==
  {[kind |-> "ok", status |-> 200, content |-> c] : c \in contents}
  \cup {[kind |-> "malformed", status |-> 0, content |-> <<>>]}
  \cup {[kind |-> "error", status |-> st, content |-> <<>>] :
          st \in {0, 400, 401, 403, 429, 500}}

\* 1 if the awaited create() call returned a response, 0 if it threw.
Responded(out) == IF out.kind \in {"ok", "malformed"} THEN 1 ELSE 0

\* A mutant of NotRetried: an invalid request (400) is retried.
NotRetriedAuthOnly(status) == status \in {401, 403}

\* err.status === 401 || err.status === 403 || err.status === 400
NotRetried(status) == status \in {401, 403, 400}

\* A mutant of ShouldSleep: no backoff.
ShouldSleepNever(a) == FALSE

\* if (attempt < MAX_RETRIES)
ShouldSleep(a) == a < MAX_RETRIES

\* attempt <= MAX_RETRIES, the condition of the for loop
LoopContinues(a) == a <= MAX_RETRIES

\* A mutant of Remember: the first error is kept.
RememberFirst(old, err) == IF old = NoError THEN err ELSE old

\* lastError = err
Remember(old, err) == err

\* One pass of the for loop of generateCommitMessages: the awaited call
\* settles with one of the outcomes.
genAttempt(contents) ==
  /\ pc # "exited"
  /\ genState = "calling"
  /\ \E out \in Outcomes(contents) :
       /\ hOutcomes' = Append(hOutcomes, out.status)
       /\ hResponses' = hResponses + Responded(out)
       /\ IF out.kind = "ok"
          THEN /\ content' = out.content
               /\ messages' = parseMessages(out.content)
               /\ genState' = "returned"
               /\ UNCHANGED <<attempt, delays, lastError>>
          ELSE /\ lastError' = Remember(lastError, [status |-> out.status, attempt |-> attempt])
               /\ IF NotRetried(out.status)
                  THEN genState' = "thrown" /\ UNCHANGED <<attempt, delays>>
                  ELSE IF ShouldSleep(attempt)
                  THEN /\ genState' = "sleeping"
                       /\ delays' = Append(delays, RETRY_DELAYS[attempt + 1])
                       /\ UNCHANGED attempt
                  ELSE IF LoopContinues(attempt + 1)
                  THEN /\ genState' = "calling"
                       /\ attempt' = attempt + 1
                       /\ UNCHANGED delays
                  ELSE genState' = "thrown" /\ UNCHANGED <<attempt, delays>>
               /\ UNCHANGED <<content, messages>>
  /\ hKey' = NoKey
  /\ UNCHANGED <<pc, procVars, selVars, hLastSet, hFirstTop, hRedrawn, flowVars>>

\* The sleep is over: attempt++, and the next pass if the loop goes on, else
\* throw lastError.
GenWake ==
  /\ pc # "exited"
  /\ genState = "sleeping"
  /\ IF LoopContinues(attempt + 1)
     THEN attempt' = attempt + 1 /\ genState' = "calling"
     ELSE attempt' = attempt /\ genState' = "thrown"
  /\ hKey' = NoKey
  /\ UNCHANGED <<pc, procVars, selVars, hLastSet, hFirstTop, hRedrawn, flowVars,
                 delays, lastError, content, messages, hOutcomes, hResponses>>

\* ------------------------- generateCommitMessages called on any response

InitGen ==
  /\ InitCommon
  /\ ~stdinTTY
  /\ ~stdoutTTY
  /\ pc = "gen_caller"
  /\ argFlags = {}
  /\ argCmd = ""
  /\ NoConfig

\* generateCommitMessages(apiKey, diffData, recentLog) is called.
GenCall ==
  /\ pc \in {"gen_caller", "retry_caller", "reasoning_caller"}
  /\ genState = "idle"
  /\ genState' = "calling"
  /\ hKey' = NoKey
  /\ UNCHANGED <<pc, procVars, selVars, hLastSet, hFirstTop, hRedrawn, flowVars,
                 attempt, delays, lastError, content, messages, hOutcomes,
                 hResponses>>

\* A network attempt settles, the response body being any of RawInputs or
\* of NumberedBodies or of MarkedBodies.
GenSettle ==
  pc = "gen_caller" /\ genAttempt(RawInputs \cup NumberedBodies \cup MarkedBodies)

NextGen == GenCall \/ GenSettle \/ GenWake

SpecGen == InitGen /\ [][NextGen]_vars

\* ------------- generateCommitMessages called, on the responses of the flow

InitRetry ==
  /\ InitCommon
  /\ pc = "retry_caller"
  /\ argFlags = {}
  /\ argCmd = ""
  /\ NoConfig

\* A network attempt settles, the response body being any of Responses.
RetrySettle == pc = "retry_caller" /\ genAttempt(Responses)

NextRetry == GenCall \/ RetrySettle \/ GenWake

SpecRetry == InitRetry /\ [][NextRetry]_vars

\* Every pending network attempt settles and every sleep ends.
FairSpecRetry == SpecRetry /\ WF_vars(NextRetry)

\* ------- generateCommitMessages called, the responses carrying reasoning text

\* "1. fix: b\n2. chore: c"
TwoNumbered ==
  Digit(1) \o ChDot \o ChSpace \o FixB \o ChLF \o Digit(2) \o ChDot \o ChSpace \o ChoreC

\* The reasoning texts a response may carry: none, "1. fix: b\n2. chore: c",
\* "x\n1. feat: a\n2. fix: b\n3. chore: c" and "1. x".
ReasoningTexts ==
  {<<>>, TwoNumbered, ChX \o ChLF \o Numbered(FeatA, FixB, ChoreC),
   Digit(1) \o ChDot \o ChSpace \o ChX}

\* The contents of those responses: "", "feat: a", "1. fix: b\n2. chore: c",
\* "1. feat: a\n2. fix: b\n3. chore: c".
ShortContents == {<<>>, FeatA, TwoNumbered, Numbered(FeatA, FixB, ChoreC)}

InitReasoning ==
  /\ InitBase
  /\ reasoning \in ReasoningTexts
  /\ ~stdinTTY
  /\ ~stdoutTTY
  /\ pc = "reasoning_caller"
  /\ argFlags = {}
  /\ argCmd = ""
  /\ NoConfig

\* A network attempt settles, the response body being any of ShortContents.
ReasoningSettle == pc = "reasoning_caller" /\ genAttempt(ShortContents)

NextReasoning == GenCall \/ ReasoningSettle \/ GenWake

SpecReasoning == InitReasoning /\ [][NextReasoning]_vars

\* ------------------------------------- config.js called by an arbitrary caller

\* A caller makes up to MaxCalls calls.
MaxCalls == 3

\* The environment: the variable unset, empty, or holding a key.
EnvValues == {NoValue, "", "env-key"}

\* The config files the calls start from.
Files ==
  {FileMissing, FileCorrupt, FileNull, FileScalar}
    \cup {FileObject(k, o) : k \in {NoValue, "", "file-key"}, o \in BOOLEAN}

\* The keys a caller stores.
NewKeys == {"key-a", "key-b"}

InitConfig ==
  /\ InitCommon
  /\ pc = "config_caller"
  /\ argFlags = {}
  /\ argCmd = ""
  /\ envKey \in EnvValues
  /\ cfgFile \in Files
  /\ staged = <<>>

\* What a call into config.js leaves alone.
ConfigCall(name) ==
  /\ pc = "config_caller"
  /\ Len(hSteps) < MaxCalls
  /\ hSteps' = Append(hSteps, name)
  /\ UNCHANGED <<pc, procVars, selVars, histVars, genVars, argFlags, argCmd,
                 handlers, interval, frame, committed, diffData, envKey,
                 staged, bundle, reasoning, gitOut, gitResult>>

CallGetApiKey ==
  /\ ConfigCall("getApiKey")
  /\ keyResult' = getApiKey(envKey, cfgFile)
  /\ UNCHANGED cfgFile

\* setApiKey(key); a call that returned is logged as the key it was given.
CallSetApiKey ==
  \E key \in NewKeys, ioFails \in BOOLEAN :
    LET r == setApiKey(cfgFile, key, ioFails)
    IN  /\ ConfigCall(IF r.threw THEN "setApiKey threw" ELSE key)
        /\ keyResult' = [threw |-> r.threw, val |-> r.val]
        /\ cfgFile' = r.file

CallDeleteApiKey ==
  \E ioFails \in BOOLEAN :
    LET r == deleteApiKey(cfgFile, ioFails)
    IN  /\ ConfigCall(IF r.threw THEN "deleteApiKey threw" ELSE "deleteApiKey")
        /\ keyResult' = [threw |-> r.threw, val |-> r.val]
        /\ cfgFile' = r.file

NextConfig == CallGetApiKey \/ CallSetApiKey \/ CallDeleteApiKey

SpecConfig == InitConfig /\ [][NextConfig]_vars

\* --------------------------------------- git.js called by an arbitrary caller

\* Up to MaxFiles files are staged.
MaxFiles == 6

\* The staged files of the model: a long document, a source file with a diff
\* of one character more than the cap, one with a diff of exactly the cap
\* that holds the words "Binary files", a binary file and an unreadable one
\* (a submodule).
FileKinds ==
  {StagedFile(9, 2, 3001, FALSE, FALSE),
   StagedFile(6, 0, 3001, FALSE, FALSE),
   StagedFile(6, 0, 3000, TRUE, FALSE),
   StagedFile(8, 1, 60, TRUE, FALSE),
   StagedFile(4, 1, 0, FALSE, TRUE)}

\* The lengths of git diff --cached <empty tree> and of its --name-only.
DetailedLens == {0, 12000, 12001}
NamesLens == {0, 6}

InitDiff ==
  /\ InitCommon
  /\ ~stdinTTY
  /\ ~stdoutTTY
  /\ pc = "diff_caller"
  /\ argFlags = {}
  /\ argCmd = ""
  /\ envKey = NoValue
  /\ cfgFile = FileMissing
  /\ \E n \in 0..MaxFiles : staged \in [1..n -> FileKinds]

\* What a call into git.js leaves alone.
DiffCall ==
  UNCHANGED <<procVars, selVars, histVars, genVars, argFlags, argCmd,
              handlers, interval, frame, committed, diffData, envKey,
              cfgFile, keyResult, hSteps, staged, reasoning, gitOut, gitResult>>

\* let diffData = getStagedDiff()
CallGetStagedDiff ==
  /\ pc = "diff_caller"
  /\ pc' = "diff_called"
  /\ DiffCall
  /\ \E gitFails \in BOOLEAN : bundle' = getStagedDiff(staged, gitFails)

\* if (!diffData.diff) diffData = getStagedDiffForNewRepo()
CallGetStagedDiffForNewRepo ==
  /\ pc = "diff_called"
  /\ bundle.len = 0
  /\ pc' = "diff_done"
  /\ DiffCall
  /\ \E detailedLen \in DetailedLens, namesLen \in NamesLens, gitFails \in BOOLEAN :
       bundle' = getStagedDiffForNewRepo(detailedLen, namesLen, gitFails)

NextDiff == CallGetStagedDiff \/ CallGetStagedDiffForNewRepo

SpecDiff == InitDiff /\ [][NextDiff]_vars

\* ----------------------------------------------------------- git.js: commit

\* "nothing to commit", "hook", "pre-commit hook", "index.lock",
\* "unknown error"
NothingToCommit ==
  <<110, 111, 116, 104, 105, 110, 103, 32, 116, 111, 32, 99, 111, 109, 109, 105, 116>>
Hook == <<104, 111, 111, 107>>
PreCommitHook == <<112, 114, 101, 45, 99, 111, 109, 109, 105, 116, 32>> \o Hook
IndexLock == <<105, 110, 100, 101, 120, 46, 108, 111, 99, 107>>
UnknownError == <<117, 110, 107, 110, 111, 119, 110, 32, 101, 114, 114, 111, 114>>

\* String.prototype.includes
Includes(s, t) ==
  \E i \in 1..(Len(s) - Len(t) + 1) : SubSeq(s, i, i + Len(t) - 1) = t

\* a || b || c of strings: the first that is not empty, else the last
OrElse(a, b, d) == IF a # <<>> THEN a ELSE IF b # <<>> THEN b ELSE d

\* lines.find((l) => l.trim()): the first line that is not blank, if any
RECURSIVE FindNonBlank(_)
FindNonBlank(ls) ==
  IF ls = <<>> THEN <<>>
  ELSE IF Trim(Head(ls)) # <<>> THEN <<Head(ls)>>
  ELSE FindNonBlank(Tail(ls))

\* (msg.split("\n").find((l) => l.trim()) || msg).trim()
FirstLine(msg) ==
  LET found == FindNonBlank(SplitLines(msg))
  IN  Trim(IF found # <<>> /\ found[1] # <<>> THEN found[1] ELSE msg)

\* What commit(message) throws, by its text.
Thrown(error, detail) ==
  [call |-> "commit", threw |-> TRUE, error |-> error, detail |-> detail]

\* The catch block of commit: the tests on msg, in the order of the code.
Classify(msg) ==
  IF Includes(msg, NothingToCommit) THEN Thrown("nothing to commit", <<>>)
  ELSE IF Includes(msg, PreCommitHook) \/ Includes(msg, Hook)
  THEN Thrown("hook rejected", <<>>)
  ELSE IF Includes(msg, IndexLock) THEN Thrown("index locked", <<>>)
  ELSE Thrown("generic", FirstLine(msg))

\* commit(message): git commit succeeds, or fails with err.stderr and
\* err.message.
commit(out, gitFails) ==
  IF ~gitFails THEN [call |-> "commit", threw |-> FALSE, error |-> "none", detail |-> <<>>]
  ELSE Classify(OrElse(out.stderr, out.message, UnknownError))

\* At most MaxTextParts parts make up a failure text.
MaxTextParts == 3

\* The parts: the three patterns, a letter, a blank and a line break.
TextParts == {NothingToCommit, Hook, IndexLock, ChX, ChSpace, ChLF}

\* The texts git commit may fail with.
FailureTexts == {Concat(ps) : ps \in UNION {[1..m -> TextParts] : m \in 0..MaxTextParts}}

\* err.message when err.stderr is empty: "x hook" and "x".
FailureMessages == {<<>>, ChX, ChX \o ChSpace \o Hook}

InitGit ==
  /\ InitCommon
  /\ ~stdinTTY
  /\ ~stdoutTTY
  /\ pc = "git_caller"
  /\ argFlags = {}
  /\ argCmd = ""
  /\ NoConfig

\* The caller makes one call into git.js; what the call leaves alone.
GitCall(name) ==
  /\ pc = "git_caller"
  /\ hSteps = <<>>
  /\ hSteps' = <<name>>
  /\ UNCHANGED <<pc, procVars, selVars, histVars, genVars, argFlags, argCmd,
                 handlers, interval, frame, committed, diffData, envKey,
                 cfgFile, keyResult, staged, bundle, reasoning>>

\* commit(message) is called; git succeeds or fails with one of the texts.
CallCommit ==
  /\ GitCall("commit")
  /\ \E text \in FailureTexts, message \in FailureMessages, gitFails \in BOOLEAN :
       /\ text # <<>> => message = <<>>
       /\ gitFails \/ (text = <<>> /\ message = <<>>)
       /\ gitOut' = [stderr |-> text, message |-> message, stdout |-> <<>>]
       /\ gitResult' = commit(gitOut', gitFails)

\* -------------------------------------------------------- git.js: getStatus

\* The position of the first " -> " in s, 0 if there is none.
ArrowAt(s) ==
  LET arrow == <<32, 45, 62, 32>>
      at == {i \in 1..(Len(s) - 3) : SubSeq(s, i, i + 3) = arrow}
  IN  IF at = {} THEN 0 ELSE CHOOSE i \in at : \A j \in at : i <= j

\* unquote(name), for names without a backslash: the quotes are removed.
unquote(name) ==
  IF Len(name) >= 2 /\ name[1] = 34 /\ name[Len(name)] = 34
  THEN SubSeq(name, 2, Len(name) - 1)
  ELSE name

\* parseFilename(raw): the new name of a rename or copy, else the name.
parseFilename(text) ==
  LET arrow == ArrowAt(text)
  IN  IF arrow # 0
      THEN [file |-> unquote(SubSeq(text, arrow + 4, Len(text))),
            from |-> unquote(SubSeq(text, 1, arrow - 1))]
      ELSE [file |-> unquote(text), from |-> <<>>]

\* STATUS_LABELS[code] || "modified"
StatusLabel(code) ==
  IF code = 77 THEN "modified" ELSE IF code = 65 THEN "added"
  ELSE IF code = 68 THEN "deleted" ELSE IF code = 82 THEN "renamed"
  ELSE IF code = 67 THEN "copied" ELSE IF code = 84 THEN "typechange"
  ELSE IF code = 85 THEN "conflict" ELSE IF code = 63 THEN "untracked"
  ELSE "modified"

\* What getStatus returns.
Status(staged_, unstaged, untracked, conflicts, all) ==
  [call |-> "getStatus", staged |-> staged_, unstaged |-> unstaged,
   untracked |-> untracked, conflicts |-> conflicts, all |-> all]
NoStatus == Status(<<>>, <<>>, <<>>, <<>>, <<>>)

\* A mutant of IsConflict: only a U marks a conflict.
IsConflictOnlyU(x, y) == x = 85 \/ y = 85

\* x === "U" || y === "U" || (x === "A" && y === "A") || (x === "D" && y === "D")
IsConflict(x, y) == x = 85 \/ y = 85 \/ (x = 65 /\ y = 65) \/ (x = 68 /\ y = 68)

\* One pass of the for loop of getStatus: st with the line classified.
statusLine(st, line) ==
  IF Len(line) < 2 THEN st
  ELSE LET x == line[1]
           y == line[2]
           name == parseFilename(SubSeq(line, 4, Len(line)))
           xy == <<x, y>>
       IN  IF x = 63 /\ y = 63
           THEN [st EXCEPT !.untracked = Append(@, [file |-> name.file]),
                           !.all = Append(@, [xy |-> xy, file |-> name.file,
                                              label |-> "untracked"])]
           ELSE IF x = 33 /\ y = 33 THEN st
           ELSE IF IsConflict(x, y)
           THEN [st EXCEPT !.conflicts = Append(@, [file |-> name.file]),
                           !.all = Append(@, [xy |-> xy, file |-> name.file,
                                              label |-> "conflict"])]
           ELSE [st EXCEPT
                   !.staged = IF x # 32 /\ x # 63
                              THEN Append(@, [status |-> x, label |-> StatusLabel(x),
                                              file |-> name.file])
                              ELSE @,
                   !.unstaged = IF y # 32
                                THEN Append(@, [status |-> y, label |-> StatusLabel(y),
                                                file |-> name.file])
                                ELSE @,
                   !.all = Append(@, [xy |-> xy, file |-> name.file,
                                      label |-> StatusLabel(IF x # 32 /\ x # 63
                                                            THEN x ELSE y)])]

\* The for loop over raw.split("\n")
RECURSIVE statusLines(_, _)
statusLines(st, ls) ==
  IF ls = <<>> THEN st ELSE statusLines(statusLine(st, Head(ls)), Tail(ls))

\* runRaw: stdout.replace(/\s+$/, "")
runRaw(stdout) == TrimEnd(stdout)

\* getStatus(), git status --porcelain having written stdout
getStatus(stdout) ==
  LET text == runRaw(stdout)
  IN  IF text = <<>> THEN NoStatus ELSE statusLines(NoStatus, SplitLines(text))

\* At most MaxLines lines of status output.
MaxLines == 2

\* The XY codes of the lines: " M", "M ", "MM", "A ", "AD", "D ", "R ", "RM",
\* "??", "!!", "UU", "AA", "DD", "AU", "DU".
StatusCodes ==
  {<<32, 77>>, <<77, 32>>, <<77, 77>>, <<65, 32>>, <<65, 68>>, <<68, 32>>,
   <<82, 32>>, <<82, 77>>, <<63, 63>>, <<33, 33>>, <<85, 85>>, <<65, 65>>,
   <<68, 68>>, <<65, 85>>, <<68, 85>>}

\* The i-th line of the output: "XY a", "XY b", ..., a renamed file as
\* "XY o -> a".
PorcelainLine(xy, i) ==
  xy \o ChSpace
     \o (IF xy[1] = 82 THEN <<111, 32, 45, 62, 32>> ELSE <<>>)
     \o <<96 + i>> \o ChLF

\* What git status --porcelain may write: one line per changed file.
PorcelainOutputs ==
  {Concat([i \in 1..Len(xys) |-> PorcelainLine(xys[i], i)]) :
     xys \in UNION {[1..m -> StatusCodes] : m \in 0..MaxLines}}

\* getStatus() is called.
CallGetStatus ==
  /\ GitCall("getStatus")
  /\ \E stdout \in PorcelainOutputs :
       /\ gitOut' = [stderr |-> <<>>, message |-> <<>>, stdout |-> stdout]
       /\ gitResult' = getStatus(stdout)

NextGit == CallCommit \/ CallGetStatus

SpecGit == InitGit /\ [][NextGit]_vars

\* ------------------------------------------------------------- the program

\* In the runs of the whole program a selector starts on the top row or on
\* the bottom row of the screen.
FlowRows == {1, ScreenRows}

\* ... and the fallback is answered with "", "1", "2", "3", "9", "2x" or "x".
FlowLines ==
  {<<>>, Digit(1), Digit(2), Digit(3), Digit(9), Digit(2) \o ChX, ChX}

\* The ticks of the spinner's timer that are followed.
MaxTicks == 2

\* A mutant of HasFlag: the long form is not recognised.
HasFlagShortOnly(long, short) == short \in argFlags

\* flags.has(long) || flags.has(short)
HasFlag(long, short) == long \in argFlags \/ short \in argFlags

\* const flagAll = flags.has("--all") || flags.has("-a")
flagAll == HasFlag("--all", "-a")

\* messages[choice] for a choice outside the list
Undefined == <<"undefined">>

\* createInterface({ input: process.stdin, output: process.stdout }): readline
\* runs in terminal mode when the output is a terminal, and then switches a
\* terminal stdin to raw mode until rl.close().
promptOpen(raw) == IF stdinTTY /\ stdoutTTY THEN TRUE ELSE raw
promptClose(raw) == IF stdinTTY /\ stdoutTTY THEN FALSE ELSE raw

\* A mutant of spinnerStopCursor: stop does not show the cursor again.
spinnerStopCursorKept(h) == h

\* spinner.stop(finalText): the cursor flag after it.
spinnerStopCursor(h) == IF stdoutTTY THEN FALSE ELSE h

\* The next statement to run is p.
Goto(p) == pc' = p /\ UNCHANGED <<exitCode, exitPath>>

\* What a step of the main flow leaves alone unless it says otherwise.
Quiet ==
  /\ hKey' = NoKey
  /\ UNCHANGED <<stdinTTY, stdoutTTY, listeners, argFlags, argCmd, staged,
                 bundle, reasoning, gitOut, gitResult>>

\* A step before or after step 6 leaves the diff as it is.
DiffKept == UNCHANGED diffData

\* A step that does not call into config.js leaves the key and the file.
CfgKept == UNCHANGED <<envKey, cfgFile, keyResult>>

\* A step that is none of the run's steps, and one that is.
StepsKept == UNCHANGED hSteps
Did(steps) == hSteps' = hSteps \o steps

\* A select call in progress, or none, is left as it is.
SelectKept == UNCHANGED <<selVars, hLastSet, hFirstTop, hRedrawn>>

\* The locals of a finished select call are gone, and the screen below it is
\* written by others.
SelectDiscarded ==
  /\ selState' = "idle"
  /\ choicesLen' = 0
  /\ selected' = 0
  /\ firstDraw' = TRUE
  /\ term' = FreshTerm(1)
  /\ answer' = <<>>
  /\ hLastSet' = 0
  /\ hFirstTop' = 0
  /\ hRedrawn' = FALSE
  /\ UNCHANGED selResult

\* The locals of a finished generateCommitMessages call are gone.
GenerateDiscarded ==
  /\ attempt' = 0
  /\ delays' = <<>>
  /\ lastError' = NoError
  /\ content' = <<>>
  /\ hOutcomes' = <<>>
  /\ hResponses' = 0

\* Start-up: the fast-exit paths, then the handlers, then the routing.
Boot ==
  /\ pc = "boot"
  /\ IF HasFlag("--help", "-h")
     THEN Exit(0, "help") /\ UNCHANGED handlers
     ELSE IF HasFlag("--version", "-v")
     THEN Exit(0, "version") /\ UNCHANGED handlers
     ELSE /\ handlers' = TRUE
          /\ Goto(IF argCmd = "config" THEN "run_config" ELSE "main")
  /\ Quiet
  /\ DiffKept
  /\ CfgKept
  /\ StepsKept
  /\ SelectKept
  /\ UNCHANGED <<isRaw, cursorHidden, interval, frame, committed, genVars>>

\* Step 1: verify git repo
MainRepo ==
  /\ pc = "main"
  /\ \E isGitRepo \in BOOLEAN :
       IF ~isGitRepo THEN Exit(1, "not_repo") ELSE Goto("conflict")
  /\ Quiet
  /\ DiffKept
  /\ CfgKept
  /\ StepsKept
  /\ SelectKept
  /\ UNCHANGED <<isRaw, cursorHidden, handlers, interval, frame,
                 committed, genVars>>

\* Step 2: check for conflict state
MainConflict ==
  /\ pc = "conflict"
  /\ \E conflict \in {"null", "rebase", "merge", "cherry-pick"} :
       IF conflict # "null"
       THEN Exit(1, "conflict") /\ StepsKept
       ELSE Goto("key") /\ Did(<<"repo">>)
  /\ Quiet
  /\ DiffKept
  /\ CfgKept
  /\ SelectKept
  /\ UNCHANGED <<isRaw, cursorHidden, handlers, interval, frame,
                 committed, genVars>>

\* A mutant of KeyMissing: any key will do.
KeyMissingNever(key) == FALSE

\* if (!apiKey)
KeyMissing(key) == ~Truthy(key)

\* Step 3: check for API key; without one the masked prompt opens.
MainKey ==
  /\ pc = "key"
  /\ LET r == getApiKey(envKey, cfgFile)
         read == IF ReadsConfig(envKey) THEN <<"config_read">> ELSE <<>>
     IN  /\ keyResult' = r
         /\ IF r.threw
            THEN Goto("rejected") /\ Did(read) /\ UNCHANGED isRaw
            ELSE IF ~KeyMissing(r.val)
            THEN Goto("status") /\ Did(read \o <<"credential">>) /\ UNCHANGED isRaw
            ELSE /\ Goto("ask_key")
                 /\ Did(read \o <<"key_prompt">>)
                 /\ isRaw' = promptOpen(isRaw)
  /\ Quiet
  /\ DiffKept
  /\ SelectKept
  /\ UNCHANGED <<envKey, cfgFile, cursorHidden, handlers, interval, frame,
                 committed, genVars>>

\* askSecret resolves: an empty key ends the run, any other is followed by
\* the question whether to save it.
KeyAnswer ==
  /\ pc = "ask_key"
  /\ \E key \in {"", "typed-key"} :
       /\ keyResult' = Returned(key)
       /\ IF KeyMissing(key)
          THEN Exit(1, "no_key") /\ isRaw' = promptClose(isRaw) /\ StepsKept
          ELSE /\ Goto("ask_save")
               /\ isRaw' = promptOpen(promptClose(isRaw))
               /\ Did(<<"credential">>)
  /\ Quiet
  /\ DiffKept
  /\ SelectKept
  /\ UNCHANGED <<envKey, cfgFile, cursorHidden, handlers, interval, frame,
                 committed, genVars>>

\* A mutant of SaveWanted: the key is saved whatever the answer.
SaveWantedAlways(shouldSave) == TRUE

\* if (shouldSave)
SaveWanted(shouldSave) == shouldSave

\* The answer to "Save key for future use?" as the history records it.
Answered(shouldSave) == IF shouldSave THEN "save_yes" ELSE "save_no"

\* confirm resolves, with yes or no; setApiKey(apiKey) after a yes.
SaveAnswer ==
  /\ pc = "ask_save"
  /\ isRaw' = promptClose(isRaw)
  /\ \E shouldSave, ioFails \in BOOLEAN :
       /\ ioFails => shouldSave
       /\ IF ~SaveWanted(shouldSave)
          THEN Goto("status") /\ Did(<<Answered(shouldSave)>>) /\ UNCHANGED cfgFile
          ELSE LET r == setApiKey(cfgFile, keyResult.val, ioFails)
               IN  /\ cfgFile' = r.file
                   /\ IF r.threw
                      THEN Goto("rejected") /\ Did(<<Answered(shouldSave)>>)
                      ELSE /\ Goto("status")
                           /\ Did(<<Answered(shouldSave), "config_write">>)
  /\ Quiet
  /\ DiffKept
  /\ SelectKept
  /\ UNCHANGED <<envKey, keyResult, cursorHidden, handlers, interval, frame,
                 committed, genVars>>

\* Steps 4 and 5 up to the staging itself. getStatus may throw.
MainStatus ==
  /\ pc = "status"
  /\ \E hasAnything, alreadyStaged, changed, threw \in BOOLEAN :
       /\ changed => hasAnything
       /\ IF threw THEN Goto("rejected") /\ StepsKept
          ELSE IF ~hasAnything /\ ~alreadyStaged
          THEN Exit(0, "no_changes") /\ StepsKept
          ELSE IF alreadyStaged
          THEN Goto("diff") /\ Did(<<"staging", "staged">>)
          ELSE IF ~changed
          THEN Exit(0, "nothing_to_stage") /\ Did(<<"staging">>)
          ELSE IF flagAll
          THEN Goto("stage_all") /\ Did(<<"staging">>)
          ELSE Goto("stage_select") /\ Did(<<"staging", "stage_prompt">>)
  /\ Quiet
  /\ DiffKept
  /\ CfgKept
  /\ SelectKept
  /\ UNCHANGED <<isRaw, cursorHidden, handlers, interval, frame,
                 committed, genVars>>

\* select(title, ["Stage all changes  (git add .)", "Select specific files"])
StageSelect == pc = "stage_select" /\ selectAt(2, FlowRows)

\* The staging choice is in: stage everything, or ask for the files.
StageChoice ==
  /\ pc = "stage_select"
  /\ selState = "resolved"
  /\ IF selResult = 0
     THEN Goto("stage_all") /\ UNCHANGED isRaw
     ELSE Goto("ask_files") /\ isRaw' = promptOpen(isRaw)
  /\ SelectDiscarded
  /\ Quiet
  /\ DiffKept
  /\ CfgKept
  /\ StepsKept
  /\ UNCHANGED <<cursorHidden, handlers, interval, frame, committed, genVars>>

\* stageAll(): git add . succeeds or throws.
StageAll ==
  /\ pc = "stage_all"
  /\ \E threw \in BOOLEAN : Goto(IF threw THEN "rejected" ELSE "verify")
  /\ Did(<<"stageAll">>)
  /\ Quiet
  /\ DiffKept
  /\ CfgKept
  /\ SelectKept
  /\ UNCHANGED <<isRaw, cursorHidden, handlers, interval, frame,
                 committed, genVars>>

\* ask resolves with the file paths; stageFiles succeeds or throws.
FilesAnswer ==
  /\ pc = "ask_files"
  /\ isRaw' = promptClose(isRaw)
  /\ \E anyValid, threw \in BOOLEAN :
       IF ~anyValid THEN Exit(1, "no_valid_files") /\ StepsKept
       ELSE /\ Goto(IF threw THEN "rejected" ELSE "verify")
            /\ Did(<<"stageFiles">>)
  /\ Quiet
  /\ DiffKept
  /\ CfgKept
  /\ SelectKept
  /\ UNCHANGED <<cursorHidden, handlers, interval, frame, committed,
                 genVars>>

\* A mutant of StagingFailed: the verification is missing.
StagingFailedNever(hasStaged) == FALSE

\* if (!hasStagedChanges())
StagingFailed(hasStaged) == ~hasStaged

\* Verify staging actually worked
MainVerify ==
  /\ pc = "verify"
  /\ \E hasStagedChanges \in BOOLEAN :
       /\ IF StagingFailed(hasStagedChanges)
          THEN Exit(1, "staging_failed")
          ELSE Goto("diff")
       /\ IF hasStagedChanges THEN Did(<<"staged">>) ELSE StepsKept
  /\ Quiet
  /\ DiffKept
  /\ CfgKept
  /\ SelectKept
  /\ UNCHANGED <<isRaw, cursorHidden, handlers, interval, frame,
                 committed, genVars>>

\* A mutant of DiffUsable: the emptiness check is missing.
DiffUsableAlways(d) == TRUE

\* !(!diffData.diff): the diff text is not empty
DiffUsable(d) == d = "nonempty"

\* Step 6, and the start of step 7: spinner.start() and the call of
\* generateCommitMessages.
MainDiff ==
  /\ pc = "diff"
  /\ \E d \in {"empty", "nonempty"} :
       /\ diffData' = d
       /\ IF ~DiffUsable(d)
          THEN /\ Exit(1, "no_diff")
               /\ StepsKept
               /\ UNCHANGED <<cursorHidden, interval, genState>>
          ELSE /\ Goto("gen")
               /\ Did(<<"diff", "request">>)
               /\ cursorHidden' = hideCursor(cursorHidden)
               /\ interval' = stdoutTTY
               /\ genState' = "calling"
  /\ Quiet
  /\ CfgKept
  /\ SelectKept
  /\ UNCHANGED <<isRaw, handlers, frame, committed, attempt, delays,
                 lastError, content, messages, hOutcomes, hResponses>>

\* The setInterval callback of the spinner writes the next frame.
SpinnerTick ==
  /\ pc # "exited"
  /\ interval
  /\ frame < MaxTicks
  /\ frame' = frame + 1
  /\ Quiet
  /\ DiffKept
  /\ CfgKept
  /\ StepsKept
  /\ SelectKept
  /\ UNCHANGED <<pc, exitCode, exitPath, isRaw, cursorHidden, handlers,
                 interval, committed, genVars>>

\* A network attempt of the call made by main settles.
GenAttempt == pc = "gen" /\ genAttempt(Responses)

\* generateCommitMessages returned: spinner.stop(...), on to step 8.
MainGenerated ==
  /\ pc = "gen"
  /\ genState = "returned"
  /\ Goto("msg_select")
  /\ Did(<<"generated">>)
  /\ interval' = FALSE
  /\ frame' = 0
  /\ cursorHidden' = spinnerStopCursor(cursorHidden)
  /\ GenerateDiscarded
  /\ Quiet
  /\ DiffKept
  /\ CfgKept
  /\ SelectKept
  /\ UNCHANGED <<isRaw, handlers, committed, genState, messages>>

\* generateCommitMessages threw: spinner.stop(...), report, exit.
MainGenerateFailed ==
  /\ pc = "gen"
  /\ genState = "thrown"
  /\ Exit(1, "generate_failed")
  /\ interval' = FALSE
  /\ frame' = 0
  /\ cursorHidden' = spinnerStopCursor(cursorHidden)
  /\ Quiet
  /\ DiffKept
  /\ CfgKept
  /\ StepsKept
  /\ SelectKept
  /\ UNCHANGED <<isRaw, handlers, committed, genVars>>

\* select("Pick a commit message:", messages)
MessageSelect == pc = "msg_select" /\ selectAt(Len(messages), FlowRows)

\* A mutant of PickMessage: the first message, whatever was chosen.
PickFirstMessage(msgs, choice) == msgs[1]

\* messages[choice], for a choice in the list
PickMessage(msgs, choice) == msgs[choice + 1]

\* Step 9: commit(messages[choice]); the end of main is the end of the run.
MainCommit ==
  /\ pc = "msg_select"
  /\ selState = "resolved"
  /\ LET inList == selResult >= 0 /\ selResult < Len(messages)
         selectedMessage == IF inList THEN PickMessage(messages, selResult) ELSE Undefined
     IN  /\ committed' = Append(committed, selectedMessage)
         /\ \E threw \in BOOLEAN :
              /\ ~inList => threw
              /\ IF threw THEN Exit(1, "commit_failed") ELSE Exit(0, "done")
  /\ Did(<<"select", "commit">>)
  /\ Quiet
  /\ DiffKept
  /\ CfgKept
  /\ SelectKept
  /\ UNCHANGED <<isRaw, cursorHidden, handlers, interval, frame, genVars>>

\* runConfig up to its options: const currentKey = getApiKey()
RunConfigKey ==
  /\ pc = "run_config"
  /\ LET r == getApiKey(envKey, cfgFile)
     IN  /\ keyResult' = r
         /\ Goto(IF r.threw THEN "rejected" ELSE "config")
         /\ Did(IF ReadsConfig(envKey) THEN <<"config_read">> ELSE <<>>)
  /\ Quiet
  /\ DiffKept
  /\ SelectKept
  /\ UNCHANGED <<envKey, cfgFile, isRaw, cursorHidden, handlers, interval,
                 frame, committed, genVars>>

\* const options: with a key, "Set new API key", "Delete saved API key"
\* (for a key from the file only), "Show config path", "Exit"; without one,
\* "Set API key", "Exit".
Options ==
  LET currentKey == Truthy(keyResult.val)
      hasEnvKey == Truthy(envKey)
  IN  IF currentKey \/ hasEnvKey
      THEN <<"Set new API key">>
             \o (IF currentKey /\ ~hasEnvKey THEN <<"Delete saved API key">> ELSE <<>>)
             \o <<"Show config path", "Exit">>
      ELSE <<"Set API key", "Exit">>

\* await select("What would you like to do?", options)
RunConfig == pc = "config" /\ selectAt(Len(Options), FlowRows)

\* The rest of runConfig: an option other than the first returns, and the
\* first one (or none of the list) is followed by the masked prompt.
ConfigChoice ==
  /\ pc = "config"
  /\ selState = "resolved"
  /\ LET picked == IF selResult >= 0 /\ selResult < Len(Options)
                   THEN Options[selResult + 1] ELSE "undefined"
     IN  IF picked \in {"Exit", "Show config path"}
         THEN Exit(0, "config") /\ CfgKept /\ StepsKept /\ UNCHANGED isRaw
         ELSE IF picked = "Delete saved API key"
         THEN \E ioFails \in BOOLEAN :
                LET r == deleteApiKey(cfgFile, ioFails)
                IN  /\ cfgFile' = r.file
                    /\ keyResult' = [threw |-> r.threw, val |-> r.val]
                    /\ IF r.threw
                       THEN Goto("rejected") /\ StepsKept
                       ELSE /\ Exit(0, "config")
                            /\ Did(IF r.val = "true" THEN <<"config_write">> ELSE <<>>)
                    /\ UNCHANGED <<envKey, isRaw>>
         ELSE /\ Goto("ask_cfg_key")
              /\ isRaw' = promptOpen(isRaw)
              /\ CfgKept
              /\ StepsKept
  /\ Quiet
  /\ DiffKept
  /\ SelectDiscarded
  /\ UNCHANGED <<cursorHidden, handlers, interval, frame, committed, genVars>>

\* askSecret of runConfig resolves; runConfig returns and the process exits.
ConfigKeyAnswer ==
  /\ pc = "ask_cfg_key"
  /\ isRaw' = promptClose(isRaw)
  /\ \E key \in {"", "typed-key"}, ioFails \in BOOLEAN :
       /\ ioFails => key # ""
       /\ IF key = ""
          THEN Exit(0, "config") /\ StepsKept /\ UNCHANGED cfgFile
          ELSE LET r == setApiKey(cfgFile, key, ioFails)
               IN  /\ cfgFile' = r.file
                   /\ IF r.threw
                      THEN Goto("rejected") /\ StepsKept
                      ELSE Exit(0, "config") /\ Did(<<"config_write">>)
  /\ Quiet
  /\ DiffKept
  /\ SelectKept
  /\ UNCHANGED <<envKey, keyResult, cursorHidden, handlers, interval, frame,
                 committed, genVars>>

\* A chunk arrives on stdin: Ctrl+C, Enter, "x", "j", "k", "2", "9" or "jj".
FlowKeys == {ChCtrlC, ChCR, ChX, ChJ, ChK, Digit(2), Digit(9), ChJ \o ChJ}
FlowKeypress == \E key \in FlowKeys : onKeypress(key)

\* The answer to the fallback's question arrives.
FlowAnswer == fallbackAnswer(FlowLines)

\* The program is waiting for input, a timer or the network: the points at
\* which a signal handler runs.
Awaiting ==
  \/ pc \in {"ask_key", "ask_save", "ask_files", "ask_cfg_key"}
  \/ pc \in {"stage_select", "msg_select", "config"}
       /\ selState \in {"awaiting", "fallback"}
  \/ pc = "gen" /\ genState \in {"calling", "sleeping"}

\* function cleanup() { restoreCursor(); restoreStdin(); }, then exit.
CleanupAndExit(code, path) ==
  /\ cursorHidden' = restoreCursor(cursorHidden)
  /\ isRaw' = restoreStdin(isRaw)
  /\ Exit(code, path)
  /\ Quiet
  /\ DiffKept
  /\ CfgKept
  /\ StepsKept
  /\ SelectKept
  /\ UNCHANGED <<handlers, interval, frame, committed, genVars>>

\* process.on("SIGINT", ...)
SIGINT == handlers /\ Awaiting /\ CleanupAndExit(130, "SIGINT")

\* process.on("SIGTERM", ...)
SIGTERM == handlers /\ Awaiting /\ CleanupAndExit(143, "SIGTERM")

\* process.on("uncaughtException", ...): a callback of the program (the
\* keypress listener, the spinner's timer) threw.
UncaughtException ==
  /\ handlers
  /\ pc # "exited"
  /\ interval \/ (selState = "awaiting" /\ listeners > 0)
  /\ CleanupAndExit(1, "uncaughtException")

\* process.on("unhandledRejection", ...): main() rejected.
UnhandledRejection ==
  /\ handlers
  /\ pc = "rejected"
  /\ CleanupAndExit(1, "unhandledRejection")

\* The flags of a run: any of -h, --version and -a, or -y alone.
FlagSets == SUBSET {"-h", "--version", "-a"} \cup {{"-y"}}

\* The environment and the config file of a run: no key anywhere, the JSON
\* text null in the file, a key in the file, a key in both.
KeySources ==
  {<<NoValue, FileMissing>>, <<NoValue, FileNull>>,
   <<NoValue, FileObject("file-key", FALSE)>>,
   <<"env-key", FileObject("file-key", FALSE)>>}

Init ==
  /\ InitCommon
  /\ pc = "boot"
  /\ argFlags \in FlagSets
  /\ argCmd \in {"", "config"}
  /\ \E source \in KeySources : envKey = source[1] /\ cfgFile = source[2]
  /\ staged = <<>>

Next ==
  \/ Boot
  \/ MainRepo
  \/ MainConflict
  \/ MainKey
  \/ KeyAnswer
  \/ SaveAnswer
  \/ MainStatus
  \/ StageSelect
  \/ StageChoice
  \/ StageAll
  \/ FilesAnswer
  \/ MainVerify
  \/ MainDiff
  \/ SpinnerTick
  \/ GenAttempt
  \/ GenWake
  \/ MainGenerated
  \/ MainGenerateFailed
  \/ MessageSelect
  \/ MainCommit
  \/ RunConfigKey
  \/ RunConfig
  \/ ConfigChoice
  \/ ConfigKeyAnswer
  \/ FlowKeypress
  \/ FlowAnswer
  \/ SIGINT
  \/ SIGTERM
  \/ UncaughtException
  \/ UnhandledRejection

Spec == Init /\ [][Next]_vars

\* ================================================================== claims

\* The interactive selector has drawn and its promise is pending or resolved.
Interactive == stdinTTY /\ selState \in {"awaiting", "resolved"}

\* C1: in the interactive selector the cursor is within the list,
\* 0 <= cursor < n, in every reachable state, whatever chunks were delivered,
\* the resolved state included (and it is 0 right after the first draw).
C1_CursorInRange ==
  Interactive => (0 <= selected /\ selected < choicesLen)

\* C2: an Up/k event moves the cursor to (cursor - 1 + n) mod n and a Down/j
\* event to (cursor + 1) mod n; up from 0 wraps to n-1, down from n-1 wraps
\* to 0, and after an up/down move the cursor is within [0, n).
C2_UpDownWrap ==
  [][/\ hKey' \in {ArrowUp, ChK} =>
          /\ selected' = (selected - 1 + choicesLen) % choicesLen
          /\ selected = 0 => selected' = choicesLen - 1
          /\ selected' \in 0..(choicesLen - 1)
     /\ hKey' \in {ArrowDown, ChJ} =>
          /\ selected' = (selected + 1) % choicesLen
          /\ selected = choicesLen - 1 => selected' = 0
          /\ selected' \in 0..(choicesLen - 1)]_vars

\* C2 witness: an Up from the first choice has wrapped to the last one.
C2_Witness ==
  /\ Interactive
  /\ hKey = ArrowUp
  /\ choicesLen >= 3
  /\ selected = choicesLen - 1
  /\ hLastSet = choicesLen - 1

\* C3: for every list length n and every single digit key d with
\* 1 <= d <= n, pressing d sets the cursor to d-1 whatever it was before.
C3_DigitJumps ==
  [][\A d \in 1..9 :
       (hKey' = Digit(d) /\ d <= choicesLen) => selected' = d - 1]_vars

\* C4: when the selector resolves on Enter, the index it returns is the one
\* the most recent move/jump event assigned (0 if there was none).
C4_ResolvesLastSet ==
  (Interactive /\ selState = "resolved") => selResult = hLastSet

\* C4 witness: resolved on Enter after a move to another choice.
C4_Witness ==
  /\ Interactive
  /\ selState = "resolved"
  /\ hKey = ChCR
  /\ hLastSet = 2
  /\ selResult = 2

\* The rows hFirstTop .. hFirstTop + n show the title and the n choices for
\* cursor sel, nothing else on the screen was drawn on, and the terminal's
\* cursor is on the row just below the block.
BlockInPlace(t, top, len, sel, final) ==
  /\ t.cur = top + len + 1
  /\ top >= 1
  /\ t.rows[top] = <<"title">>
  /\ \A i \in 0..(len - 1) :
       t.rows[top + 1 + i] = IF final THEN FinalText(i, sel) ELSE ChoiceText(i, sel)
  /\ \A r \in 1..ScreenRows :
       (r < top \/ r > top + len) => t.rows[r] \in {<<"old">>, <<"blank">>}

\* C5: redraw is in place: after every redraw and after the final render the
\* block occupies the same 1+n rows as after the first draw, each row shows
\* exactly its new text (erased before written), the cursor is on the row
\* below the block and the pass did not scroll the screen.
C5_RedrawInPlace ==
  Interactive =>
    /\ BlockInPlace(term, hFirstTop, choicesLen, selected, selState = "resolved")
    /\ (hRedrawn \/ selState = "resolved") => ~term.scrolled

\* C5 witness: a block drawn at the bottom of the screen (the first draw
\* scrolled), redrawn, then confirmed.
C5_Witness ==
  /\ Interactive
  /\ selState = "resolved"
  /\ hRedrawn
  /\ choicesLen = 3
  /\ selected = 1
  /\ term.cur = ScreenRows

\* The line is an integer: after trimming, an optional sign and then digits
\* only.
IsIntegerLine(line) ==
  LET t == Trim(line)
      body == IF t # <<>> /\ Head(t) \in {43, 45} THEN Tail(t) ELSE t
  IN  body # <<>> /\ \A i \in 1..Len(body) : IsDigitUnit(body[i])

\* The value of a string of digits, read from the right.
RECURSIVE DecimalOf(_)
DecimalOf(ds) ==
  IF ds = <<>> THEN 0
  ELSE 10 * DecimalOf(SubSeq(ds, 1, Len(ds) - 1)) + (ds[Len(ds)] - 48)

\* The integer an integer line denotes.
IntegerOf(line) ==
  LET t == Trim(line)
      signed == Head(t) \in {43, 45}
      mag == DecimalOf(IF signed THEN Tail(t) ELSE t)
  IN  IF Head(t) = 45 THEN -mag ELSE mag

\* The longest prefix of the trimmed line that is an integer line (empty when
\* there is none).
LeadingInteger(line) ==
  LET t == Trim(line)
      ms == {m \in 1..Len(t) : IsIntegerLine(SubSeq(t, 1, m))}
  IN  IF ms = {} THEN <<>>
      ELSE SubSeq(t, 1, CHOOSE m \in ms : \A k \in ms : k <= m)

\* C6: whatever way the process exits (end of main, process.exit after an
\* error, Ctrl+C in the selector, SIGINT, SIGTERM, uncaught exception,
\* unhandled rejection) and whatever it was doing (spinner running, selector
\* awaiting input, a prompt open), stdin is not left in raw mode and the
\* cursor is not left hidden.
C6_ExitsRestored == pc = "exited" => ~isRaw /\ ~cursorHidden

\* C6 witness: SIGTERM arrived while the selector was awaiting input on a
\* terminal (raw mode was on), and the process has exited.
C6_Witness ==
  /\ pc = "exited"
  /\ exitPath = "SIGTERM"
  /\ selState = "awaiting"
  /\ stdinTTY /\ stdoutTTY
  /\ ~isRaw

\* C7: every exit caused by a user interrupt, the SIGINT signal or Ctrl+C
\* typed into the selector, has exit status 130.
C7_InterruptExits130 ==
  (pc = "exited" /\ exitPath \in {"SIGINT", "select_ctrl_c"}) => exitCode = 130

\* C8 as stated: in the fallback, an integer line k with 1 <= k <= n gives
\* k-1 and every other line (out of range or not an integer) gives 0.
C8_FallbackStrict ==
  (~stdinTTY /\ selState = "resolved") =>
    selResult =
      IF IsIntegerLine(answer) /\ IntegerOf(answer) \in 1..choicesLen
      THEN IntegerOf(answer) - 1
      ELSE 0

\* C8 amended: the line is read as parseInt reads it: the integer k it starts
\* with after trimming (whatever follows the digits is ignored) gives k-1 when
\* 1 <= k <= n; a line that starts with no integer, or with one out of range,
\* gives 0. The index returned is always within the list.
C8_FallbackLeadingInteger ==
  (~stdinTTY /\ selState = "resolved") =>
    LET lead == LeadingInteger(answer)
    IN  /\ selResult \in 0..(choicesLen - 1)
        /\ selResult =
             IF lead # <<>> /\ IntegerOf(lead) \in 1..choicesLen
             THEN IntegerOf(lead) - 1
             ELSE 0

\* C8 witness: "2x" was typed for a list of three and index 1 came back.
C8_Witness ==
  /\ ~stdinTTY
  /\ selState = "resolved"
  /\ choicesLen = 3
  /\ answer = Digit(2) \o ChX
  /\ selResult = 1

\* C9: with no terminal on stdin, select never switches stdin to raw mode and
\* never registers its "data" listener.
C9_FallbackNeverRaw ==
  ~stdinTTY => (~isRaw /\ listeners = 0)

\* C9 witness: the fallback has returned an index.
C9_Witness ==
  /\ ~stdinTTY
  /\ selState = "resolved"
  /\ selResult = 1
  /\ ~isRaw

\* C10: whenever generateCommitMessages returns, whatever the response
\* content, the result is a sequence of exactly 3 non-empty strings.
C10_ThreeNonEmpty ==
  genState = "returned" =>
    /\ Len(messages) = 3
    /\ \A i \in 1..Len(messages) : Len(messages[i]) > 0

\* C10 witness: returned for a response with one usable line and a line of
\* quotes only; the rest was padded.
C10_Witness ==
  /\ genState = "returned"
  /\ content = FeatA \o ChLF \o ChDQuote
  /\ messages = <<FeatA, Filler, Filler>>

\* The statuses of the errors that are retried: rate limit, server error, and
\* no status at all (network failure, timeout, a response without choices).
TransientStatus == {429, 500, 0}

\* C11: an attempt that fails with status 401, 403 or 400 ends the call at
\* once with that error, on whichever attempt it happens: no delay is taken
\* after it and no further attempt is made.
C11_NoRetryOnAuthOrInvalid ==
  /\ [][(genState = "calling" /\ hOutcomes' # hOutcomes
           /\ hOutcomes'[Len(hOutcomes')] \in {401, 403, 400})
        => /\ genState' = "thrown"
           /\ delays' = delays
           /\ lastError' = [status |-> hOutcomes'[Len(hOutcomes')],
                            attempt |-> Len(hOutcomes)]]_vars
  /\ [][genState = "thrown"
        => genState' = "thrown" /\ hOutcomes' = hOutcomes /\ delays' = delays]_vars
  /\ [](genState = "thrown" /\ hOutcomes = <<401>> => delays = <<>>)

\* C11 witness: a rate limit, one delay, then 401 on the second attempt: thrown
\* with no second delay.
C11_Witness ==
  /\ genState = "thrown"
  /\ hOutcomes = <<429, 401>>
  /\ delays = <<1000>>
  /\ lastError.status = 401

\* C12: one call makes at most 3 attempts and takes at most 2 delays, 1000 ms
\* before the second attempt and 3000 ms before the third, and it ends by
\* returning or throwing.
C12_BoundedRetries ==
  /\ [](/\ Len(hOutcomes) <= 3
        /\ Len(delays) <= 2
        /\ delays = SubSeq(<<1000, 3000>>, 1, Len(delays))
        /\ (genState = "calling" => Len(delays) = Len(hOutcomes)))
  /\ <>(genState \in {"returned", "thrown"})

\* C12 witness: the third attempt has settled, after both delays.
C12_Witness ==
  /\ Len(hOutcomes) = 3
  /\ delays = <<1000, 3000>>
  /\ genState \in {"returned", "thrown"}

\* C13: when attempt k succeeds after k-1 transient failures (k in 1..3),
\* exactly k-1 delays were taken, what is returned is the parse of attempt k's
\* content, and nothing happens afterwards.
C13_SuccessAfterTransient ==
  /\ [](genState = "returned" =>
          LET k == Len(hOutcomes)
          IN  /\ k \in 1..3
              /\ hOutcomes[k] = 200
              /\ \A i \in 1..(k - 1) : hOutcomes[i] \in TransientStatus
              /\ Len(delays) = k - 1
              /\ messages = parseMessages(content))
  /\ [][genState = "returned"
        => /\ genState' = "returned"
           /\ hOutcomes' = hOutcomes
           /\ delays' = delays
           /\ messages' = messages]_vars

\* C13 witness: rate limited twice, then success: two delays and a return.
C13_Witness ==
  /\ genState = "returned"
  /\ hOutcomes = <<429, 429, 200>>
  /\ delays = <<1000, 3000>>
  /\ messages = <<FeatA, Filler, Filler>>

\* C14: when all three attempts fail with transient errors the call throws
\* the error of the third attempt, and only the two delays between the
\* attempts were taken.
C14_ThrowsLastError ==
  (/\ genState = "thrown"
   /\ Len(hOutcomes) = 3
   /\ \A i \in 1..3 : hOutcomes[i] \in TransientStatus)
  => /\ lastError = [status |-> hOutcomes[3], attempt |-> 2]
     /\ delays = <<1000, 3000>>

\* C14 witness: rate limit, network failure, server error: the server error
\* is thrown.
C14_Witness ==
  /\ genState = "thrown"
  /\ hOutcomes = <<429, 0, 500>>
  /\ lastError.status = 500
  /\ Len(delays) = 2

\* C15 as stated: for every response of three lines "k. <message>", k = 1, 2,
\* 3, the parser returns the three messages, numbering removed, in order.
C15_NumberedRoundTrip ==
  \A m1 \in MessageTexts, m2 \in MessageTexts, m3 \in MessageTexts :
    (genState = "returned" /\ content = Numbered(m1, m2, m3))
      => messages = <<m1, m2, m3>>

\* A message the parser hands back unchanged: 1 to 199 characters, on one
\* line, with no white space and no quote character at either end.
PlainMessage(m) ==
  /\ Len(m) >= 1
  /\ Len(m) <= 199
  /\ \A i \in 1..Len(m) : m[i] # 10
  /\ ~IsSpaceUnit(m[1]) /\ ~IsSpaceUnit(m[Len(m)])
  /\ m[1] \notin {34, 39, 96} /\ m[Len(m)] \notin {34, 39, 96}

\* C15 amended: the same, for messages of 1 to 199 characters that neither
\* begin nor end with white space or a quote character.
C15_NumberedPlainRoundTrip ==
  genState = "returned" /\ content \in NumberedBodies =>
    \A m1 \in MessageTexts, m2 \in MessageTexts, m3 \in MessageTexts :
      (/\ content = Numbered(m1, m2, m3)
       /\ PlainMessage(m1) /\ PlainMessage(m2) /\ PlainMessage(m3))
        => messages = <<m1, m2, m3>>

\* C15 witness: "1. feat: a\n2. fix: b\n3. chore: c" gave
\* ["feat: a", "fix: b", "chore: c"].
C15_Witness ==
  /\ genState = "returned"
  /\ content = Numbered(FeatA, FixB, ChoreC)
  /\ messages = <<FeatA, FixB, ChoreC>>

\* The lines of a response after trimming, blank ones dropped, each with its
\* numbering and its quotes removed.
CleanedLines(text) ==
  LET ls == TrimmedNonEmpty(SplitLines(text))
  IN  [i \in 1..Len(ls) |-> StripQuotes(StripNumbering(ls[i]))]

\* A candidate may be returned: 1 to 199 characters.
Acceptable(u) == Len(u) >= 1 /\ Len(u) <= 199

\* The first three acceptable lines of a response, or all of them when there
\* are fewer.
FirstAcceptable(text) ==
  LET acc == SelectSeq(CleanedLines(text), Acceptable)
  IN  SubSeq(acc, 1, IF Len(acc) < 3 THEN Len(acc) ELSE 3)

\* C16: for every response the parser returns at most 3 candidates, none
\* empty and none of 200 characters or more, and the candidates taken from the
\* response are its first acceptable lines, in order, at most 3 of them (what
\* is left of the 3 is the filler).
C16_BoundedCandidates ==
  genState = "returned" =>
    LET first == FirstAcceptable(content)
    IN  /\ Len(messages) <= 3
        /\ \A i \in 1..Len(messages) : Acceptable(messages[i])
        /\ SubSeq(messages, 1, Len(first)) = first
        /\ \A i \in (Len(first) + 1)..Len(messages) : messages[i] = Filler

\* C16 witness: four acceptable lines and then a line of 200 letters: the
\* first three are returned, in order.
C16_Witness ==
  /\ genState = "returned"
  /\ content = TwoLines \o TwoLines \o Rep(200)
  /\ messages = <<FixB, ChoreC, FixB>>

\* u starts with an enumeration marker: digits and one of . ) - and a blank,
\* or a bullet - or * and a blank.
StartsWithMarker(u) ==
  LET d == LeadingDigits(u)
  IN  \/ d >= 1 /\ Len(u) >= d + 2 /\ u[d + 1] \in {46, 41, 45} /\ u[d + 2] = 32
      \/ Len(u) >= 2 /\ u[1] \in {45, 42} /\ u[2] = 32

\* u begins or ends with a quote character.
HasOuterQuote(u) == u # <<>> /\ (u[1] \in {34, 39, 96} \/ u[Len(u)] \in {34, 39, 96})

\* C17: for every response line built from the markers "1. ", "1) ", "1- ",
\* "- ", "* " and quote wrapping, in any combination, no returned candidate
\* starts with a marker or has a quote character at either end.
C17_NoMarkupLeft ==
  (genState = "returned" /\ content \in MarkedBodies) =>
    \A i \in 1..Len(messages) :
      ~StartsWithMarker(messages[i]) /\ ~HasOuterQuote(messages[i])

\* C18: a successful response without any acceptable candidate (an empty
\* content, for one) never makes generateCommitMessages return messages.
C18_NoCandidatesFails ==
  genState = "returned" => FirstAcceptable(content) # <<>>

C20_EmptyDiffShortCircuits ==
  /\ diffData = "empty" =>
       /\ pc = "exited" /\ exitCode = 1
       /\ genState = "idle" /\ hOutcomes = <<>>
       /\ ~interval
       /\ committed = <<>>
  /\ (genState # "idle" \/ hOutcomes # <<>> \/ committed # <<>>) =>
       diffData = "nonempty"

\* C20 witness: the diff was read, it was empty, and the run has ended.
C20_Witness ==
  /\ diffData = "empty"
  /\ pc = "exited" /\ exitPath = "no_diff"
  /\ genState = "idle"

\* ------------------------------------------------------ orchestration steps

\* The steps of the run, in the order of main.
StepOrder ==
  <<"repo", "credential", "staging", "diff", "request", "select", "commit">>

Took(e) == \E i \in 1..Len(hSteps) : hSteps[i] = e
IndexOf(e) == CHOOSE i \in 1..Len(hSteps) : hSteps[i] = e
Before(a, b) == Took(a) /\ Took(b) => IndexOf(a) < IndexOf(b)
IsStep(e) == \E i \in 1..Len(StepOrder) : StepOrder[i] = e
Rank(e) == CHOOSE i \in 1..Len(StepOrder) : StepOrder[i] = e
StepsTaken == SelectSeq(hSteps, IsStep)

\* C21: the steps check repo state, resolve credential, stage, build diff,
\* request messages, select, commit are taken in this order and each at most
\* once; commit() is called only after the repository check passed, a
\* non-empty key was resolved, staged changes were found, the generation
\* returned and the selector resolved.
C21_FixedOrder ==
  /\ \A i, j \in 1..Len(StepsTaken) :
       i < j => Rank(StepsTaken[i]) < Rank(StepsTaken[j])
  /\ Len(committed) = (IF Took("commit") THEN 1 ELSE 0)
  /\ hOutcomes # <<>> => Took("request")
  /\ Took("commit") =>
       /\ Took("repo")
       /\ Took("credential") /\ Truthy(keyResult.val)
       /\ Took("staged") /\ Before("staged", "request")
       /\ Took("generated") /\ Before("request", "generated")
       /\ Took("select") /\ Before("generated", "select")

\* A run that asked for the key, saved it, staged chosen files and committed.
C21_Witness ==
  /\ exitPath = "done"
  /\ Took("key_prompt")
  /\ Took("config_write")
  /\ Took("stageFiles")

\* The failures that end the run before it has staged anything.
EarlyFailures == {"not_repo", "conflict", "no_key"}

\* C22: a run that ends because the directory is no repository, a rebase,
\* merge or cherry-pick is in progress, no key was supplied, staging left the
\* index empty or the generation failed exits with a non-zero status and has
\* taken none of the later steps; no step is taken after a failed one.
C22_FailuresTerminal ==
  /\ exitPath \in EarlyFailures \cup {"staging_failed", "generate_failed"} =>
       /\ exitCode > 0
       /\ committed = <<>>
       /\ ~Took("select") /\ ~Took("commit")
  /\ exitPath \in EarlyFailures =>
       /\ ~Took("staging") /\ ~Took("stageAll") /\ ~Took("stageFiles")
       /\ ~Took("request") /\ hOutcomes = <<>>
  /\ exitPath = "staging_failed" =>
       ~Took("staged") /\ ~Took("diff") /\ ~Took("request") /\ hOutcomes = <<>>
  /\ exitPath = "generate_failed" => ~Took("generated")
  /\ Took("staging") => Took("repo") /\ Took("credential")
  /\ Took("request") => Took("staged")
  /\ Took("select") => Took("generated")

\* Staging everything left the index empty, and the run ended.
C22_Witness == exitPath = "staging_failed" /\ Took("stageAll")

\* C23: with --help, -h, --version or -v among the arguments the process
\* exits 0 from the fast-exit paths, with help before version, and has not
\* checked the repository, read or written the config, staged, called the
\* network or committed.
C23_HelpVersionShortCircuit ==
  argFlags \cap {"--help", "-h", "--version", "-v"} # {} =>
    /\ pc \in {"boot", "exited"}
    /\ pc = "exited" =>
         /\ exitCode = 0
         /\ exitPath = (IF argFlags \cap {"--help", "-h"} # {}
                        THEN "help" ELSE "version")
    /\ hSteps = <<>>
    /\ keyResult = NoResult
    /\ hOutcomes = <<>>
    /\ committed = <<>>

\* zcommit config -a -h --version printed the help and exited.
C23_Witness ==
  /\ pc = "exited"
  /\ exitPath = "help"
  /\ argFlags = {"-h", "--version", "-a"}
  /\ argCmd = "config"

\* ------------------------------------------------------------ the credential

LastCall == IF hSteps = <<>> THEN "none" ELSE hSteps[Len(hSteps)]

\* The key a config file stores, null if it stores none.
StoredKey(file) ==
  IF file.kind = "object" /\ file.apiKey \notin {NoValue, ""}
  THEN file.apiKey ELSE Null

\* C24: getApiKey returns the value of CEREBRAS_API_KEY when that is set and
\* not empty, whatever the config file holds; otherwise the key stored in
\* the file, and null when the file stores none, is missing or is corrupt.
C24_ResolutionOrder ==
  LastCall = "getApiKey" =>
    keyResult = Returned(IF envKey \notin {NoValue, ""} THEN envKey
                         ELSE StoredKey(cfgFile))

\* C25: the main flow writes the config file only after it found no key,
\* the user typed one and answered yes to saving it, and what it writes is
\* the typed key; a run whose key came from CEREBRAS_API_KEY or from the file
\* leaves the file as it was.
C25_KeySavedOnlyOnOptIn ==
  [][argCmd # "config" =>
       /\ cfgFile' # cfgFile =>
            /\ pc = "ask_save"
            /\ Took("key_prompt")
            /\ keyResult.val = "typed-key"
            /\ cfgFile' = [loadConfig(cfgFile) EXCEPT !.apiKey = "typed-key"]
            /\ hSteps' = hSteps \o <<"save_yes", "config_write">>
       /\ keyResult.val \in {"env-key", "file-key"} => cfgFile' = cfgFile
       /\ envKey' = envKey]_vars

\* The typed key was saved, and the run went on.
C25_Witness ==
  /\ argCmd = ""
  /\ Took("save_yes")
  /\ Took("config_write")
  /\ cfgFile = FileObject("typed-key", FALSE)
  /\ Took("staging")

\* ------------------------------------------------------------------ the flags

\* C26: with -a or --all, a run that got staged changes out of its staging
\* step called stageAll, and no run showed the staging prompt.
C26_AllFlagStagesAll ==
  argFlags \cap {"--all", "-a"} # {} =>
    /\ ~Took("stage_prompt")
    /\ Took("staged") => Took("stageAll")

\* C27: without -y or --yes, commit() is called only after the user has
\* confirmed the selected message in a prompt that follows the selection;
\* with -y or --yes that prompt is not shown.
C27_CommitAfterConfirmation ==
  /\ argFlags \cap {"--yes", "-y"} = {} /\ Took("commit") =>
       Took("confirm") /\ Before("select", "confirm") /\ Before("confirm", "commit")
  /\ argFlags \cap {"--yes", "-y"} # {} => ~Took("confirm")

\* ------------------------------------------------------------ the diff bundle

Built == bundle.from = "getStagedDiff" /\ bundle.ok
PartsOf(id) == {i \in 1..Len(bundle.parts) : bundle.parts[i].id = id}
PartSet == {bundle.parts[i] : i \in 1..Len(bundle.parts)}
WithoutPart == {id \in 1..Len(staged) : PartsOf(id) = {}}

\* A file whose diff getStagedDiff takes as text.
TextFile(f) == ~f.unreadable /\ ~(f.binaryWords /\ f.diffLen < BinaryLimit)

\* C28: the diff text returned by getStagedDiff and by
\* getStagedDiffForNewRepo is at most 12000 characters long.
C28_TotalBudget == bundle.len <= 12000

\* C29, as stated: no part of a file is longer than 3000 characters, and the
\* part of a file with a longer diff names it in a truncation marker.
C29_PartWithinCap ==
  Built =>
    \A p \in PartSet :
      /\ TextFile(staged[p.id]) => p.len <= 3000
      /\ TextFile(staged[p.id]) /\ staged[p.id].diffLen > 3000 =>
           p.kind = "truncated" /\ p.names = p.id

\* C29, with the marker counted apart: a part keeps at most 3000 characters
\* of its file's diff; the part of a file with a longer diff is these 3000
\* characters followed by "\n... [<file> truncated]" naming that file, and
\* the part of any other text file is its whole diff, without a marker.
C29_KeptWithinCap ==
  Built =>
    \A p \in PartSet :
      LET f == staged[p.id]
      IN  /\ p.kept <= 3000
          /\ TextFile(f) /\ f.diffLen > 3000 =>
               /\ p.kind = "truncated"
               /\ p.names = p.id
               /\ p.kept = 3000
               /\ p.len = 3000 + 17 + f.nameLen
          /\ TextFile(f) /\ f.diffLen <= 3000 =>
               p.kind = "diff" /\ p.kept = f.diffLen /\ p.len = f.diffLen

\* A bundle with a diff of exactly 3000 characters and a truncated one.
C29_Witness ==
  /\ Built
  /\ \E p \in PartSet : p.kind = "diff" /\ p.kept = 3000
  /\ \E p \in PartSet : p.kind = "truncated"

\* C30: every staged file has exactly one part (its diff, its truncated
\* diff, or a placeholder for a binary or unreadable file) or is one of the
\* files the omission marker counts; the marker is there exactly when a file
\* has no part, and the number it states is the number of such files.
C30_NothingDropped ==
  Built =>
    /\ \A id \in 1..Len(staged) : Cardinality(PartsOf(id)) <= 1
    /\ \A p \in PartSet : p.id \in 1..Len(staged)
    /\ bundle.marker > 0 <=> WithoutPart # {}
    /\ bundle.marker = Cardinality(WithoutPart)

\* Three source files, a binary file and a document spend the budget, and
\* the second document is omitted.
C30_Witness ==
  /\ Built
  /\ bundle.marker = 1
  /\ Cardinality(WithoutPart) = 1
  /\ \E p \in PartSet : p.kind = "binary"
  /\ \E p \in PartSet : p.kind = "truncated"

\* ---------------------------------------------------------------- exit status

\* The run ended in a commit that succeeded.
EndedInCommit == exitPath = "done" /\ Took("commit") /\ Len(committed) = 1

\* The run ended without doing anything: nothing to commit or to stage, the
\* help, the version, or the config subcommand returned.
EndedInNoOp ==
  \/ exitPath \in {"no_changes", "nothing_to_stage", "help", "version", "config"}
  \/ argCmd = "config" /\ exitPath = "select_ctrl_c"

\* The exits of a failed run.
FailureExits ==
  {"not_repo", "conflict", "no_key", "no_valid_files", "staging_failed",
   "no_diff", "generate_failed", "commit_failed", "uncaughtException",
   "unhandledRejection"}

\* C31: the exit status is 0 exactly when the run ended in a successful
\* commit or in a no-op, 1 on every failure (a failed commit and a failed
\* generation among them), and 143, with the terminal restored, on SIGTERM.
C31_ExitStatusMapping ==
  pc = "exited" =>
    /\ exitCode = 0 <=> EndedInCommit \/ EndedInNoOp
    /\ exitPath \in FailureExits => exitCode = 1
    /\ exitPath = "SIGTERM" => exitCode = 143 /\ ~cursorHidden /\ ~isRaw

\* The chunks the selector acts on by its key table: Up/k, Down/j, a digit
\* in 1..n, Enter and Ctrl+C.
BoundKey(key, len) ==
  \/ key \in {ArrowUp, ChK, ArrowDown, ChJ, ChCR, ChLF, ChCtrlC}
  \/ \E d \in 1..9 : d <= len /\ key = Digit(d)

\* C32: a chunk that is not Up/k, Down/j, a digit in 1..n, Enter or Ctrl+C is
\* ignored by the awaiting selector: the cursor and the screen stay as they
\* were (no render), raw mode stays on, the listener stays registered and the
\* selector keeps awaiting.
C32_OtherInputIgnored ==
  [][(selState = "awaiting" /\ hKey' # NoKey /\ ~BoundKey(hKey', choicesLen))
       => /\ selected' = selected
          /\ term' = term
          /\ hRedrawn' = hRedrawn
          /\ isRaw' = isRaw
          /\ listeners' = listeners
          /\ selState' = "awaiting"]_vars

\* The run is at its message selector after the staging selector was used.
SecondSelect == pc = "msg_select" /\ Took("stage_prompt") /\ selState = "awaiting"

\* C33: the selector is single-round and non-reentrant: stdin never carries
\* more than one keypress listener of select; a call that resolved or
\* cancelled has removed its listener, and its result does not change
\* afterwards; and every call, a later one of the same run included, starts
\* with cursor 0 and registers exactly one listener.
C33_SingleRound ==
  [][/\ listeners \in {0, 1} /\ listeners' \in {0, 1}
     /\ selState' \in {"resolved", "cancelled"} /\ stdinTTY => listeners' = 0
     /\ selState = "resolved" /\ selState' = "resolved" => selResult' = selResult
     /\ selState # "awaiting" /\ selState' = "awaiting"
          => listeners = 0 /\ listeners' = 1 /\ selected' = 0]_vars

\* The message selector was opened after the staging selector had resolved,
\* and holds the only listener.
C33_Witness == SecondSelect /\ listeners = 1 /\ selected = 0 /\ hKey = NoKey

\* C34: only failures of the network call are retried: once an attempt's
\* network call has returned a response, the call is over (returned, or
\* thrown if the response could not be read), that attempt was the last one,
\* and the only delays are those taken between the attempts before it.
C34_ResponseEndsCall ==
  hResponses > 0 =>
    /\ genState \in {"returned", "thrown"}
    /\ hResponses = 1
    /\ Len(delays) = Len(hOutcomes) - 1

\* feat, fix, refactor, docs, style, test, chore, perf, ci, build
CommitTypes ==
  {<<102, 101, 97, 116>>, <<102, 105, 120>>,
   <<114, 101, 102, 97, 99, 116, 111, 114>>, <<100, 111, 99, 115>>,
   <<115, 116, 121, 108, 101>>, <<116, 101, 115, 116>>,
   <<99, 104, 111, 114, 101>>, <<112, 101, 114, 102>>, <<99, 105>>,
   <<98, 117, 105, 108, 100>>}

\* The line is numbered and its text starts with a recognized commit type.
TypedNumbered(line) ==
  /\ StripNumbering(line) # line
  /\ \E t \in CommitTypes :
       LET u == StripNumbering(line)
       IN  Len(u) >= Len(t) /\ SubSeq(u, 1, Len(t)) = t

\* msgs followed by the texts of the typed numbered lines of ls that are not
\* present yet, in order.
RECURSIVE AppendNew(_, _)
AppendNew(msgs, ls) ==
  IF ls = <<>> THEN msgs
  ELSE LET u == StripNumbering(Head(ls))
           present == \E i \in 1..Len(msgs) : msgs[i] = u
       IN  AppendNew(IF TypedNumbered(Head(ls)) /\ ~present THEN Append(msgs, u) ELSE msgs,
                     Tail(ls))

\* The candidates of the primary content.
Candidates(text) == Collect(TrimmedNonEmpty(SplitLines(text)), <<>>)

\* C35: when the content yields fewer than 3 candidates and the response's
\* reasoning text has numbered lines that start with a commit type, those
\* lines not already present follow the candidates in the result, in order,
\* up to 3 messages.
C35_ReasoningFallback ==
  genState = "returned" =>
    LET cands == Candidates(content)
        merged == AppendNew(cands, TrimmedNonEmpty(SplitLines(reasoning)))
    IN  Len(cands) < WantedMessages =>
          \A i \in 1..Len(merged) : i <= WantedMessages => messages[i] = merged[i]

\* The key stored after the logged calls: the key of the last setApiKey that
\* returned if no deleteApiKey returned after it, none after such a
\* deleteApiKey, and the key the file held from the start if the log has
\* neither.
RECURSIVE KeyAfter(_, _)
KeyAfter(steps, start) ==
  IF steps = <<>> THEN start
  ELSE LET last == steps[Len(steps)]
       IN  IF last \in NewKeys THEN last
           ELSE IF last = "deleteApiKey" THEN Null
           ELSE KeyAfter(SubSeq(steps, 1, Len(steps) - 1), start)

\* The fields of the stored config other than apiKey.
OtherFields(file) == loadConfig(file).other

\* The call that was just made threw because the file could not be written.
WriteFailed == keyResult'.threw /\ cfgFile.kind \in {"missing", "corrupt", "object"}

\* C36: with CEREBRAS_API_KEY unset, whatever calls came before: getApiKey
\* returns the key of the most recent setApiKey if no deleteApiKey followed
\* it and null otherwise (the key the file held from the start if neither
\* was called); deleteApiKey returns true exactly when a key was stored
\* before the call, so false right after another deleteApiKey; setApiKey
\* stores its key; setApiKey and deleteApiKey leave every other field of the
\* stored config as it was; and none of the three throws unless the file
\* cannot be written.
C36_KeyLifecycle ==
  [][(envKey = NoValue /\ hSteps' # hSteps) =>
       LET call == hSteps'[Len(hSteps')]
       IN  /\ keyResult'.threw => WriteFailed
           /\ call = "getApiKey" =>
                /\ keyResult' = Returned(KeyAfter(hSteps, StoredKey(cfgFile)))
                /\ cfgFile' = cfgFile
           /\ call = "deleteApiKey" =>
                /\ keyResult'.val = (IF StoredKey(cfgFile) # Null THEN "true" ELSE "false")
                /\ StoredKey(cfgFile') = Null
                /\ OtherFields(cfgFile') = OtherFields(cfgFile)
                /\ (LastCall = "deleteApiKey" => keyResult'.val = "false")
           /\ call \in NewKeys =>
                /\ StoredKey(cfgFile') = call
                /\ OtherFields(cfgFile') = OtherFields(cfgFile)]_vars

\* spinner.stop() has just returned: main goes on to the message selector or
\* reports the failure.
SpinnerStopped == pc = "gen" /\ (pc' = "msg_select" \/ exitPath' = "generate_failed")

\* C37: the spinner is cancellable at any time without affecting the result:
\* a frame is written only while the timer runs, and writing it changes
\* nothing of the pending call; when spinner.stop() has returned the timer is
\* cancelled, the cursor is visible and the messages or the error are those
\* the call produced; without a terminal on stdout no timer is started and
\* the cursor is never hidden.
C37_SpinnerCancellable ==
  [][/\ frame' > frame => pc = "gen" /\ interval /\ interval' /\ UNCHANGED genVars
     /\ SpinnerStopped =>
          /\ ~interval' /\ ~cursorHidden'
          /\ genState \in {"returned", "thrown"}
          /\ messages' = messages
          /\ (genState = "thrown" => lastError' = lastError)
     /\ ~stdoutTTY => ~interval' /\ ~cursorHidden']_vars

\* The call returned its messages while the spinner was on a terminal, and
\* spinner.stop() has left the timer cancelled and the cursor visible.
C37_Witness ==
  /\ pc = "msg_select" /\ selState = "idle" /\ Took("generated")
  /\ stdoutTTY /\ ~interval /\ ~cursorHidden /\ frame = 0
  /\ Len(messages) = 3

\* The failure text commit classifies: err.stderr || err.message || "unknown error".
FailureText == OrElse(gitOut.stderr, gitOut.message, UnknownError)

\* What the failure text mentions.
MentionsLock == Includes(FailureText, IndexLock)
MentionsHook == Includes(FailureText, Hook)
MentionsNothing == Includes(FailureText, NothingToCommit)

\* The lines of the failure text that are not blank.
NonBlankLines == TrimmedNonEmpty(SplitLines(FailureText))

\* C38: a failed git commit is put into exactly one category by its failure
\* text: a text that mentions index.lock is reported as a locked index; one
\* that mentions a hook as rejected by a hook and one that says "nothing to
\* commit" as nothing to commit (either of the two when it does both); and
\* any other text as a generic error that carries its first non-empty line.
C38_ClassifiedByText ==
  (gitResult.call = "commit" /\ gitResult.threw) =>
    /\ gitResult.error \in {"index locked", "hook rejected", "nothing to commit", "generic"}
    /\ MentionsLock => gitResult.error = "index locked"
    /\ (~MentionsLock /\ MentionsHook /\ ~MentionsNothing) => gitResult.error = "hook rejected"
    /\ (~MentionsLock /\ ~MentionsHook /\ MentionsNothing) => gitResult.error = "nothing to commit"
    /\ (~MentionsLock /\ MentionsHook /\ MentionsNothing)
         => gitResult.error \in {"hook rejected", "nothing to commit"}
    /\ (~MentionsLock /\ ~MentionsHook /\ ~MentionsNothing) =>
         /\ gitResult.error = "generic"
         /\ NonBlankLines # <<>> => gitResult.detail = NonBlankLines[1]

\* The lines of the status output, and the file a line names.
StatusOutput == SplitLines(runRaw(gitOut.stdout))
FileOf(line) == parseFilename(SubSeq(line, 4, Len(line))).file

\* The number of entries of a list that name the file.
Entries(list, file) == Cardinality({k \in 1..Len(list) : list[k].file = file})

\* C39: getStatus classifies every porcelain line consistently: an ignored
\* (!!) line appears in no list; every other line appears exactly once in
\* all; an untracked (??) line appears in untracked only; a conflict line (a
\* U in either column, AA or DD) appears in conflicts only; and any other
\* line appears in staged iff its index column is not blank, in unstaged iff
\* its work-tree column is not blank, and in neither of the other two.
C39_StatusClassified ==
  gitResult.call = "getStatus" =>
    \A i \in 1..Len(StatusOutput) :
      LET line == StatusOutput[i]
          x == line[1]
          y == line[2]
          f == FileOf(line)
          inAll == Entries(gitResult.all, f)
          inStaged == Entries(gitResult.staged, f)
          inUnstaged == Entries(gitResult.unstaged, f)
          inUntracked == Entries(gitResult.untracked, f)
          inConflicts == Entries(gitResult.conflicts, f)
      IN  Len(line) >= 4 =>
            IF <<x, y>> = <<33, 33>>
            THEN inAll + inStaged + inUnstaged + inUntracked + inConflicts = 0
            ELSE /\ inAll = 1
                 /\ IF <<x, y>> = <<63, 63>>
                    THEN inUntracked = 1 /\ inStaged + inUnstaged + inConflicts = 0
                    ELSE IF 85 \in {x, y} \/ <<x, y>> \in {<<65, 65>>, <<68, 68>>}
                    THEN inConflicts = 1 /\ inStaged + inUnstaged + inUntracked = 0
                    ELSE /\ inStaged = (IF x # 32 THEN 1 ELSE 0)
                         /\ inUnstaged = (IF y # 32 THEN 1 ELSE 0)
                         /\ inUntracked + inConflicts = 0

\* Two lines, "MM a" and "DD b": a is staged and unstaged, b is a conflict.
C39_Witness ==
  /\ gitResult.call = "getStatus"
  /\ gitOut.stdout = PorcelainLine(<<77, 77>>, 1) \o PorcelainLine(<<68, 68>>, 2)
  /\ Len(gitResult.staged) = 1 /\ Len(gitResult.unstaged) = 1
  /\ Len(gitResult.conflicts) = 1 /\ Len(gitResult.all) = 2

============================================================================
